---- MODULE Spec2Model ----
(***************************************************************************)
(* State-machine model of the SRM Academia scraper: the SRMScraper object  *)
(* (browser handle, login flag), its public run_* entry points, the two    *)
(* callers (run_scraper_in_background in app.py and run_scraper in         *)
(* srm_scrapper.py), the attendance upsert, the active_jobs map, and the   *)
(* two pure steps of the extraction pipeline (record deduplication and the *)
(* slot map of the timetable merge).                                       *)
(*                                                                         *)
(* The browser, the portal and the store are the environment: every call   *)
(* into them either returns one of the values the code distinguishes or    *)
(* raises, chosen nondeterministically.                                    *)
(***************************************************************************)
EXTENDS Integers, Sequences, FiniteSets, TLC

\* ---------------------------------------------------------------- bounds
\* Browser handles that can exist during one request.
MaxHandles == 2
\* Seconds the wall clock advances while jobs are observed.
MaxTime == 1
\* Worker threads (submitted jobs) observed together.
MaxWorkers == 2
\* Attendance records in one parsed list.
MaxRecords == 3
\* Periods of one multi-period lab slot.
MaxPeriods == 3
\* Longest course list handed to merge_timetable_with_courses.
MaxCourses == 2
\* Most data rows of an attendance table.
MaxRows == 2

\* ------------------------------------------------------ program constants
\* setup_driver: for attempt in range(5)
DriverStrategies == 5
\* login: for login_attempt in range(3)
LoginAttempts == 3
\* login: for cookie_attempt in range(3)
CookieAttempts == 3
\* run_timetable_scraper: max_login_attempts = 3
max_login_attempts == 3
\* run_scraper: max_retries=2
max_retries == 2

\* upsert_attendance_data: max_attempts = 3
max_attempts == 3

ScraperTypes == {"attendance", "timetable", "unified"}
NoHandle == 0

\* Owners (user ids / emails) and snapshot contents used by the store model.
Users == {"u1", "u2"}
Snapshots == {"old", "new"}
Workers == 1..MaxWorkers
\* The submit endpoints of app.py: the scraper_type each passes to the
\* worker and the label each puts into the job_id of its response.
Endpoints == {"scrape", "scrape-timetable", "scrape-all", "refresh-data"}
WorkerType(e) == CASE e = "scrape" -> "attendance"
                   [] e = "scrape-timetable" -> "timetable"
                   [] e = "scrape-all" -> "all"
                   [] OTHER -> "attendance"
ResponseLabel(e) == CASE e = "scrape" -> "attendance"
                      [] e = "scrape-timetable" -> "timetable"
                      [] e = "scrape-all" -> "all"
                      [] OTHER -> "refresh"
JobLabels == {"attendance", "timetable", "all", "refresh"}
JobIds == Users \X JobLabels \X (0..MaxTime)

VARIABLES
  \* ---- the caller
  entry,            \* "bg": run_scraper_in_background, "cli": run_scraper
  stype,            \* scraper_type
  cookies,          \* bg: a cookie set was supplied instead of credentials
  pc,               \* position of the (single-threaded) request
  jobStatus,        \* bg: active_jobs[job_id]["status"], "none" before the first write
  driver_created,   \* bg local
  cliAttempt,       \* run_scraper: attempt
  cliStatus,        \* run_scraper: result["status"]
  \* ---- SRMScraper fields and the handles it created
  driver,           \* self.driver: NoHandle (None) or a handle id
  is_logged_in,     \* self.is_logged_in
  nHandles,         \* handles created so far (ids 1..nHandles)
  quitSet,          \* handles on which quit() has been called
  cookieJar,        \* handles into which the caller's cookies were injected
  \* ---- setup_driver
  su_attempt,       \* attempt
  suRet,            \* who called setup_driver: "bg", "run", "ensure"
  suTried,          \* strategies tried by the current setup_driver call, in order
  suFailed,         \* handles created by attempts of the current call that then failed
  suExhausted,      \* a setup_driver call of this request raised (all strategies failed)
  orphanProcs,      \* Chrome processes the current call started with Popen and whose
                    \* attach failed
  \* ---- ensure_login
  elRet,            \* call site of ensure_login
  elResult,         \* "true", "false", "raise", "none"
  elEntryLogged,    \* is_logged_in when ensure_login was entered
  elBrowser,        \* ensure_login made a browser call since it was entered
  \* ---- login
  login_attempt,    \* login_attempt
  page_loaded,      \* page_loaded
  emailEntered,     \* send_keys(self.email) executed in this attempt
  passwordEntered,  \* send_keys(self.password) executed in this attempt
  submitted,        \* submit / sign-in button clicked in this attempt
  iframe_attempts,  \* metrics["iframe_attempts"]
  cookie_attempt,   \* cookie_attempt
  cookies_extracted,\* cookies_extracted
  cookieDictBound,  \* the local cookie_dict has been assigned
  tokensMinted,     \* calls of create_jwt_token in this login()
  storeWrites,      \* user_cookies delete/insert calls issued in this login()
  \* ---- the run_* function in progress
  runHandle,        \* handle returned by this run's own setup_driver, NoHandle if none
  tt_login_attempt, \* run_timetable_scraper: login_attempt
  runResult,        \* "none", "success", "partial_success", "error", "raised"
  exitPath,         \* which return statement ended the run
  ensureTrue,       \* ensure_login returned True in this run
  navigated,        \* driver.get(ATTENDANCE_PAGE_URL / TIMETABLE_URL) was called in this run
  extracted,        \* a parse_* / scrape_* extraction ran in this run
  persisted,        \* a store write of scraped data was issued in this run
  attStatus, marksStatus, ttStatus,   \* run_unified_scraper: per-artifact status
  runLog,           \* calls and navigations of this run, in order: <<what, handle>>
  attSnapshot,      \* run_unified_scraper: <<attendance, marks>> status when the
                    \* attendance block ended, <<>> before
  \* ---- bookkeeping on the login flow
  loginCallsRun,    \* login() calls in this run
  loginAttemptsCall,\* full login attempts in the current login() call
  loginAttemptsReq, \* full login attempts since the request started
  \* ---- upsert_attendance_data and the attendance table
  u_pc,             \* position inside upsert_attendance_data
  user_id,          \* user_id
  attendance_json,  \* attendance_json
  attempt,          \* attempt
  record_exists,    \* record_exists
  u_result,         \* "none", "true", "false": the value returned
  u_attemptsMade,   \* iterations of the attempt loop that ran
  u_storeOk,        \* an update or insert returned data in this call
  u_backupTried,    \* the backup file write was attempted
  u_backupWritten,  \* the backup file write succeeded
  attRows,          \* table "attendance": user -> sequence of stored snapshots
  \* ---- app.py: the wall clock, active_jobs and the worker threads
  now,              \* int(time.time())
  active_jobs,      \* job_id -> "absent", "running", "completed", "error"
  w_pc,             \* worker -> position in run_scraper_in_background
  w_email,          \* worker -> email
  w_endpoint,       \* worker -> endpoint that started it
  w_job,            \* worker -> job_id computed by the worker
  r_job,            \* worker -> job_id returned by the endpoint, <<>> before
  termWrites,       \* job_id -> number of terminal statuses written to the record
  regressed,        \* a record that held a terminal status was given another status
  \* ---- parse_and_save_attendance_robust: the deduplication step
  d_pc,             \* "idle", "parsed", "deduplicated", "again"
  attendance_records,    \* the parsed records, in page order
  deduplicated_records,  \* list(deduplicated_records.values())
  deduplicated_again,    \* the step applied to its own output
  \* ---- merge_timetable_with_courses: the slot map
  s_pc,             \* "idle", "course", "mapped"
  slot_periods,     \* the period numbers of the lab slot, as digit strings
  slot_form,        \* "P-P": P<n>-P<m>-...-   "P-n": P<n>-<m>-...-
  slot,             \* course["slot"], a string (sequence of characters)
  slot_course,      \* course["course_code"]
  enhanced_mapping, \* slot key -> course
  \* ---- merge_timetable_with_courses: the merged schedule
  m_pc,             \* "idle", "courses", "merged"
  course_data,      \* the scraped course list
  merged_tt,        \* time-slot number -> merged cell, <<>> before the merge
  \* ---- the batch step of run_timetable_scraper and run_unified_scraper
  b_pc,             \* "idle", "batch", "scrape", "done"
  b_caller,         \* "timetable": run_timetable_scraper, "unified": run_unified_scraper
  page_batch,       \* what parse_batch_number_from_page returns, or "raise"
  url_batch,        \* the digits after "batch=" in the current URL, or "none"
  profile_batch,    \* what extract_batch_from_profile returns
  scraped,          \* scrape_timetable: "rows", "none" or "raise"
  batch_number,     \* the batch handed to the merge, "none" before
  student_batch,    \* the batch the merge used, "none" when it did not merge
  tt_status,        \* the status reported for the timetable, "none" before
  \* ---- parse_and_save_attendance_robust: the rows of an attendance table
  a_pc,             \* "idle", "table", "parsed"
  headers,          \* the texts of the cells of the header row
  data_rows,        \* the data rows, each the texts of its td cells
  att_records,      \* the records the table yields, <<>> before
  \* ---- get_attendance_page
  g_pc,             \* "idle", "ensure", "get", "marker", "table", "source", "done"
  g_login,          \* what ensure_login returned, "none" before
  rendered,         \* the document in the browser: "blank", "table", "full"
  waited,           \* seconds spent in sleep and in the two waits
  g_waits,          \* the outcomes of the waits made, in order
  driver_raised,    \* driver.get or the page_source read raised
  html_source,      \* the value returned; "running", "None", "raise" or a document
  \* ---- get_course_title
  t_pc,             \* "idle", "call", "done"
  marks_code,       \* the course code of the marks table
  title_records,    \* the attendance records: course_code and course_title
  title_result,     \* the value returned, <<>> before
  \* ---- extract_registration_number_robust
  r_pc,             \* "idle", "strategies", "fallback", "done"
  email,            \* self.email
  strategy_results, \* what each of the four strategies gives on this page
  strategy_i,       \* the strategy the loop is at
  reg_result,       \* the value returned, <<>> before
  \* ---- two scrapes of one owner in upsert_attendance_data
  c_pc,             \* run -> "select", "update", "insert", "handler", "done"
  c_exists,         \* run -> record_exists
  c_stored,         \* run -> an update or insert of the run returned data
  c_rows,           \* the rows of the owner in table "attendance", oldest first
  \* ---- get_user_id_robust
  y_pc,             \* "idle", "email", "reg", "insert", "done"
  y_attempt,        \* attempt of "for attempt in range(max_attempts)"
  registration_number,  \* the argument, "" when none was extracted
  y_trace,          \* the requests made to table "users" and their outcomes
  y_result          \* "none" before; the id returned ("by_email", "by_reg", "new") or "raise"

callerVars == <<entry, stype, cookies, jobStatus, driver_created, cliAttempt, cliStatus>>
handleVars == <<driver, is_logged_in, nHandles, quitSet, cookieJar>>
setupVars  == <<su_attempt, suRet, suTried, suFailed, suExhausted, orphanProcs>>
ensureVars == <<elRet, elResult, elEntryLogged, elBrowser>>
loginVars  == <<login_attempt, page_loaded, emailEntered, passwordEntered, submitted,
                iframe_attempts, cookie_attempt, cookies_extracted, cookieDictBound,
                tokensMinted, storeWrites>>
runVars    == <<runHandle, tt_login_attempt, runResult, exitPath, ensureTrue,
                navigated, extracted, persisted, attStatus, marksStatus, ttStatus>>
countVars  == <<loginCallsRun, loginAttemptsCall, loginAttemptsReq>>
logVars    == <<runLog, attSnapshot>>
upsertVars == <<u_pc, user_id, attendance_json, attempt, record_exists, u_result,
                u_attemptsMade, u_storeOk, u_backupTried, u_backupWritten, attRows>>
jobsVars   == <<now, active_jobs, w_pc, w_email, w_endpoint, w_job, r_job, termWrites, regressed>>
scraperVars == <<pc, callerVars, handleVars, setupVars, ensureVars, loginVars, runVars,
                 countVars, logVars>>
dedupVars  == <<d_pc, attendance_records, deduplicated_records, deduplicated_again>>
slotVars   == <<s_pc, slot_periods, slot_form, slot, slot_course, enhanced_mapping>>
mergeVars  == <<m_pc, course_data, merged_tt>>
batchVars  == <<b_pc, b_caller, page_batch, url_batch, profile_batch, scraped,
                batch_number, student_batch, tt_status>>
parseVars  == <<a_pc, headers, data_rows, att_records>>
pageVars   == <<g_pc, g_login, rendered, waited, g_waits, driver_raised, html_source>>
titleVars  == <<t_pc, marks_code, title_records, title_result>>
regVars    == <<r_pc, email, strategy_results, strategy_i, reg_result>>
raceVars   == <<c_pc, c_exists, c_stored, c_rows>>
userVars   == <<y_pc, y_attempt, registration_number, y_trace, y_result>>
moreVars   == <<mergeVars, batchVars, parseVars, pageVars, titleVars, regVars, raceVars,
                userVars>>
pureVars   == <<dedupVars, slotVars, moreVars>>
\* Everything but the parts added after the slot map.
oldVars    == <<scraperVars, upsertVars, jobsVars, dedupVars, slotVars>>
\* Everything outside the scraper object and its request.
auxVars == <<upsertVars, jobsVars, pureVars>>
vars == <<scraperVars, auxVars>>

\* SRMScraper.__init__ and the locals of a request, given the caller, the
\* scraper type, whether cookies were supplied and the starting position.
ScraperInit(e, t, c, p) ==
  /\ entry = e /\ stype = t /\ cookies = c
  /\ pc = p
  /\ jobStatus = "none" /\ driver_created = FALSE
  /\ cliAttempt = 0 /\ cliStatus = "error"
  /\ driver = NoHandle /\ is_logged_in = FALSE
  /\ nHandles = 0 /\ quitSet = {} /\ cookieJar = {}
  /\ su_attempt = 0 /\ suRet = "none"
  /\ suTried = <<>> /\ suFailed = {} /\ suExhausted = FALSE /\ orphanProcs = 0
  /\ runLog = <<>> /\ attSnapshot = <<>>
  /\ elRet = "none" /\ elResult = "none" /\ elEntryLogged = FALSE /\ elBrowser = FALSE
  /\ login_attempt = 0 /\ page_loaded = FALSE
  /\ emailEntered = FALSE /\ passwordEntered = FALSE /\ submitted = FALSE
  /\ iframe_attempts = 0
  /\ cookie_attempt = 0 /\ cookies_extracted = FALSE /\ cookieDictBound = FALSE
  /\ tokensMinted = 0 /\ storeWrites = 0
  /\ runHandle = NoHandle /\ tt_login_attempt = 0
  /\ runResult = "none" /\ exitPath = "none" /\ ensureTrue = FALSE
  /\ navigated = FALSE /\ extracted = FALSE /\ persisted = FALSE
  /\ attStatus = "not_started" /\ marksStatus = "not_started" /\ ttStatus = "not_started"
  /\ loginCallsRun = 0 /\ loginAttemptsCall = 0 /\ loginAttemptsReq = 0

\* No upsert_attendance_data call in progress, empty attendance table.
UpsertIdle ==
  /\ u_pc = "idle"
  /\ user_id = "u1" /\ attendance_json = "new"
  /\ attempt = 0 /\ record_exists = FALSE /\ u_result = "none"
  /\ u_attemptsMade = 0 /\ u_storeOk = FALSE
  /\ u_backupTried = FALSE /\ u_backupWritten = FALSE
  /\ attRows = [u \in Users |-> <<>>]

\* app.py at import: active_jobs = {} and no worker thread.
JobsIdle ==
  /\ now = 0
  /\ active_jobs = [j \in JobIds |-> "absent"]
  /\ w_pc = [w \in Workers |-> "unborn"]
  /\ w_email = [w \in Workers |-> "u1"]
  /\ w_endpoint = [w \in Workers |-> "scrape"]
  /\ w_job = [w \in Workers |-> <<>>]
  /\ r_job = [w \in Workers |-> <<>>]
  /\ termWrites = [j \in JobIds |-> 0]
  /\ regressed = FALSE

\* No deduplication and no timetable merge in progress.
DedupIdle ==
  /\ d_pc = "idle"
  /\ attendance_records = <<>> /\ deduplicated_records = <<>> /\ deduplicated_again = <<>>
SlotIdle ==
  /\ s_pc = "idle"
  /\ slot_periods = <<>> /\ slot_form = "P-P" /\ slot = <<>> /\ slot_course = "c1"
  /\ enhanced_mapping = <<>>
MergeIdle ==
  /\ m_pc = "idle" /\ course_data = <<>> /\ merged_tt = <<>>
BatchIdle ==
  /\ b_pc = "idle" /\ b_caller = "timetable"
  /\ page_batch = "none" /\ url_batch = "none" /\ profile_batch = "none"
  /\ scraped = "none"
  /\ batch_number = "none" /\ student_batch = "none" /\ tt_status = "none"
ParseIdle ==
  /\ a_pc = "idle" /\ headers = <<>> /\ data_rows = <<>> /\ att_records = <<>>
PageIdle ==
  /\ g_pc = "idle" /\ g_login = "none" /\ rendered = "blank" /\ waited = 0
  /\ g_waits = <<>> /\ driver_raised = FALSE /\ html_source = "running"
TitleIdle ==
  /\ t_pc = "idle" /\ marks_code = <<>> /\ title_records = <<>> /\ title_result = <<>>
RegIdle ==
  /\ r_pc = "idle" /\ email = <<>> /\ strategy_results = <<>> /\ strategy_i = 1
  /\ reg_result = <<>>
RaceIdle ==
  /\ c_pc = <<"done", "done">> /\ c_exists = <<FALSE, FALSE>>
  /\ c_stored = <<FALSE, FALSE>> /\ c_rows = <<>>
UserIdle ==
  /\ y_pc = "idle" /\ y_attempt = 0 /\ registration_number = "" /\ y_trace = <<>>
  /\ y_result = "none"
MoreIdle == MergeIdle /\ BatchIdle /\ ParseIdle /\ PageIdle /\ TitleIdle /\ RegIdle /\ RaceIdle
            /\ UserIdle
PureIdle == DedupIdle /\ SlotIdle /\ MoreIdle

\* One request: a background job (with or without cookies) or a run_scraper
\* call, of any scraper type, or a POST /api/login.
Init ==
  /\ \E e \in {"bg", "cli", "api"}, t \in ScraperTypes, c \in BOOLEAN :
       /\ (e = "cli" => c = FALSE)
       /\ (e = "api" => (c = FALSE /\ t = "attendance"))
       /\ ScraperInit(e, t, c, "start")
  /\ UpsertIdle
  /\ JobsIdle
  /\ PureIdle

\* ------------------------------------------------------------------------
\* Helpers

\* driver.quit() on self.driver, guarded by "if self.driver" as the code does.
QuitIfDriver(d, q) == IF d # NoHandle THEN q \cup {d} ELSE q

\* Position of the body of the run_* function for a scraper type.
RunStart(t) == IF t = "attendance" THEN "att_start"
               ELSE IF t = "timetable" THEN "tt_start" ELSE "uni_start"

\* ------------------------------------------------------------------------
\* Variant: the stealth launch is tried before the direct launch.
StrategyOf_StealthFirst(a) ==
  CASE a = 0 -> "stealth"
    [] a = 1 -> "binary_path"
    [] a = 2 -> "managed_install"
    [] a = 3 -> "direct"
    [] OTHER -> "remote_debug"

\* setup_driver: the initialization strategy of each attempt number.
StrategyOf(a) ==
  CASE a = 0 -> "direct"
    [] a = 1 -> "binary_path"
    [] a = 2 -> "managed_install"
    [] a = 3 -> "stealth"
    [] OTHER -> "remote_debug"

\* A call of setup_driver by the given caller starts.
EnterSetup(caller) ==
  /\ su_attempt' = 0 /\ suRet' = caller /\ suTried' = <<>>
  /\ suFailed' = {} /\ orphanProcs' = 0
  /\ UNCHANGED suExhausted

\* SRMScraper.setup_driver: one iteration of "for attempt in range(5)".
\* o = "ok":        the strategy's constructor and apply_timeouts succeed.
\* o = "ctor_fail": the constructor raises; the handler quits and clears
\*                  whatever self.driver held before the call.
\* o = "post_fail": the constructor succeeds, self.driver is assigned, then
\*                  apply_timeouts raises; the handler quits the new handle.
\* o = "attach_fail": remote-debugging strategy only: subprocess.Popen started
\*                  a Chrome process, then the webdriver.Chrome that should
\*                  attach to it raises; chrome_process is never terminated.
\* After the fifth failure the function raises.
SetupAttempt ==
  /\ UNCHANGED auxVars
  /\ pc = "setup"
  /\ su_attempt < DriverStrategies
  /\ suTried' = Append(suTried, StrategyOf(su_attempt))
  /\ \E o \in {"ok", "ctor_fail", "post_fail", "attach_fail"} :
       \/ /\ o = "ok"
          /\ nHandles < MaxHandles
          /\ nHandles' = nHandles + 1
          /\ driver' = nHandles + 1
          /\ pc' = "setup_ok"
          /\ UNCHANGED <<quitSet, su_attempt, suFailed, suExhausted, orphanProcs>>
       \/ /\ o \in {"ctor_fail", "attach_fail"}
          /\ (o = "attach_fail" => StrategyOf(su_attempt) = "remote_debug")
          /\ orphanProcs' = IF o = "attach_fail" THEN orphanProcs + 1 ELSE orphanProcs
          /\ quitSet' = QuitIfDriver(driver, quitSet)
          /\ driver' = NoHandle
          /\ su_attempt' = su_attempt + 1
          /\ suExhausted' = (suExhausted \/ su_attempt + 1 = DriverStrategies)
          /\ pc' = IF su_attempt + 1 = DriverStrategies THEN "setup_raise" ELSE "setup"
          /\ UNCHANGED <<nHandles, suFailed>>
       \/ /\ o = "post_fail"
          /\ nHandles < MaxHandles
          /\ nHandles' = nHandles + 1
          /\ quitSet' = quitSet \cup {nHandles + 1}
          /\ suFailed' = suFailed \cup {nHandles + 1}
          /\ driver' = NoHandle
          /\ su_attempt' = su_attempt + 1
          /\ suExhausted' = (suExhausted \/ su_attempt + 1 = DriverStrategies)
          /\ pc' = IF su_attempt + 1 = DriverStrategies THEN "setup_raise" ELSE "setup"
          /\ UNCHANGED orphanProcs
  /\ UNCHANGED <<callerVars, is_logged_in, cookieJar, suRet, ensureVars, loginVars,
                 runVars, countVars, logVars>>

\* Entering login(): the locals it initialises before its attempt loop.
EnterLogin ==
  /\ login_attempt' = 0
  /\ page_loaded' = FALSE
  /\ emailEntered' = FALSE /\ passwordEntered' = FALSE /\ submitted' = FALSE
  /\ iframe_attempts' = 0
  /\ cookie_attempt' = 0 /\ cookies_extracted' = FALSE /\ cookieDictBound' = FALSE
  /\ tokensMinted' = 0 /\ storeWrites' = 0
  /\ loginCallsRun' = loginCallsRun + 1
  /\ loginAttemptsCall' = 0
  /\ UNCHANGED loginAttemptsReq
  /\ runLog' = Append(runLog, <<"login", driver>>)

\* SRMScraper.ensure_login up to the point where it either returns True,
\* calls setup_driver or calls login.
\* Variant: the flag is ignored and the login flow always runs.
SessionReusable_AlwaysRelogin(logged) == FALSE

\* "if self.is_logged_in: return True"
SessionReusable(logged) == logged

EnsureLogin ==
  /\ UNCHANGED auxVars
  /\ pc = "ensure"
  /\ elEntryLogged' = is_logged_in
  /\ elBrowser' = FALSE
  /\ IF SessionReusable(is_logged_in)
       THEN /\ elResult' = "true"
            /\ pc' = "ensure_ret"
            /\ UNCHANGED <<setupVars, loginVars, countVars, runLog>>
       ELSE IF driver = NoHandle
         THEN /\ pc' = "setup"
              /\ EnterSetup("ensure")
              /\ runLog' = Append(runLog, <<"setup_driver", NoHandle>>)
              /\ elResult' = "none"
              /\ UNCHANGED <<loginVars, countVars>>
         ELSE /\ pc' = "login_page"
              /\ elResult' = "none"
              /\ EnterLogin
              /\ UNCHANGED setupVars
  /\ UNCHANGED <<callerVars, handleVars, elRet, runVars, attSnapshot>>

\* Variant: one attempt more than the loop allows.
LoginBudget_Four == LoginAttempts + 1

\* Number of full attempts login() makes before it returns False
\* ("for login_attempt in range(3)").
LoginBudget == LoginAttempts

\* login(): the page-load part of one iteration of "for login_attempt in
\* range(3)" (the try block).  Every exception of driver.get and of the
\* readiness wait is caught by the inner handler, so the outer "except
\* Exception" clause, which holds the frame location, the credential entry
\* and the form submission, is never entered: no statement of the try block
\* outside the inner try can raise.  Control therefore always continues at
\* the verification that follows the try statement.
LoginLoadPage ==
  /\ UNCHANGED auxVars
  /\ pc = "login_page"
  /\ login_attempt < LoginBudget
  /\ page_loaded' \in BOOLEAN
  \* self.driver.get on None raises AttributeError into the inner handler.
  /\ (driver = NoHandle => page_loaded' = FALSE)
  /\ emailEntered' = FALSE /\ passwordEntered' = FALSE /\ submitted' = FALSE
  /\ elBrowser' = (driver # NoHandle)
  /\ loginAttemptsCall' = loginAttemptsCall + 1
  /\ loginAttemptsReq' = loginAttemptsReq + 1
  /\ pc' = "login_verify"
  /\ UNCHANGED <<callerVars, handleVars, setupVars, elRet, elResult, elEntryLogged,
                 login_attempt, iframe_attempts, cookie_attempt, cookies_extracted,
                 cookieDictBound, tokensMinted, storeWrites, runVars, loginCallsRun,
                 logVars>>

\* login(): the verification after the try statement.
\* o = "raise":    switch_to.default_content / current_url / page_source raises,
\*                 which nothing in login() catches.
\* o = "verified": one of the three success signals holds.
\* o = "rejected": none holds; next attempt, or return False after the last.
LoginVerify ==
  /\ UNCHANGED auxVars
  /\ pc = "login_verify"
  /\ \E o \in {"raise", "verified", "rejected"} :
       \* self.driver.switch_to on None raises AttributeError.
       /\ (driver = NoHandle => o = "raise")
       /\ \/ /\ o = "raise"
             /\ elResult' = "raise"
             /\ pc' = "ensure_ret"
             /\ UNCHANGED <<login_attempt, cookie_attempt, cookies_extracted>>
          \/ /\ o = "verified"
             /\ pc' = "login_cookies"
             /\ cookie_attempt' = 0
             /\ cookies_extracted' = FALSE
             /\ UNCHANGED <<login_attempt, elResult>>
          \/ /\ o = "rejected"
             /\ login_attempt' = login_attempt + 1
             /\ IF login_attempt + 1 >= LoginBudget
                  THEN elResult' = "false" /\ pc' = "ensure_ret"
                  ELSE elResult' = elResult /\ pc' = "login_page"
             /\ UNCHANGED <<cookie_attempt, cookies_extracted>>
  /\ UNCHANGED <<callerVars, handleVars, setupVars, elRet, elEntryLogged, elBrowser,
                 page_loaded, emailEntered, passwordEntered, submitted, iframe_attempts,
                 cookieDictBound, tokensMinted, storeWrites, runVars, countVars, logVars>>

\* login(): one iteration of "for cookie_attempt in range(3)" after the login
\* was verified, and the "self.is_logged_in = True; return True" that follows
\* the loop.
\* o = "ok":           get_cookies succeeds, cookie_dict is built, break.
\* o = "fail":         get_cookies raises; the handler mints the token and runs
\*                     the store loop, whose body reads cookie_dict.
\* o = "fail_notoken": as "fail", but create_jwt_token returns None and the
\*                     handler raises.
\* The token and the store write live in the handler only.
LoginCookieAttempt ==
  /\ UNCHANGED auxVars
  /\ pc = "login_cookies"
  /\ cookie_attempt < CookieAttempts
  /\ \E o \in {"ok", "fail", "fail_notoken"} :
       \/ /\ o = "ok"
          /\ cookies_extracted' = TRUE
          /\ cookieDictBound' = TRUE
          /\ UNCHANGED <<tokensMinted, storeWrites>>
          /\ is_logged_in' = TRUE
          /\ elResult' = "true"
          /\ pc' = "ensure_ret"
          /\ UNCHANGED cookie_attempt
       \/ /\ o = "fail"
          /\ tokensMinted' = tokensMinted + 1
          \* cookie_data = {... 'cookies': cookie_dict ...}: a NameError while
          \* cookie_dict is unbound, caught by the store loop's handler.
          /\ IF cookieDictBound
               THEN storeWrites' = storeWrites + 1 /\ cookies_extracted' \in BOOLEAN
               ELSE storeWrites' = storeWrites /\ cookies_extracted' = cookies_extracted
          /\ cookie_attempt' = cookie_attempt + 1
          /\ IF cookie_attempt + 1 = CookieAttempts
               THEN is_logged_in' = TRUE /\ elResult' = "true" /\ pc' = "ensure_ret"
               ELSE is_logged_in' = is_logged_in /\ elResult' = elResult /\ pc' = pc
          /\ UNCHANGED cookieDictBound
       \/ /\ o = "fail_notoken"
          /\ elResult' = "raise"
          /\ pc' = "ensure_ret"
          /\ UNCHANGED <<cookies_extracted, cookieDictBound, tokensMinted, storeWrites,
                         is_logged_in, cookie_attempt>>
  /\ UNCHANGED <<callerVars, driver, nHandles, quitSet, cookieJar, setupVars,
                 elRet, elEntryLogged, elBrowser,
                 login_attempt, page_loaded, emailEntered, passwordEntered, submitted,
                 iframe_attempts, runVars, countVars, logVars>>

\* ------------------------------------------------------------------------
\* The locals a run_* function starts with, and its call of setup_driver.
EnterRun ==
  /\ UNCHANGED auxVars
  /\ runHandle' = NoHandle /\ tt_login_attempt' = 0
  /\ runResult' = "none" /\ exitPath' = "none" /\ ensureTrue' = FALSE
  /\ navigated' = FALSE /\ extracted' = FALSE /\ persisted' = FALSE
  /\ attStatus' = "not_started" /\ marksStatus' = "not_started" /\ ttStatus' = "not_started"
  /\ loginCallsRun' = 0
  /\ pc' = "setup" /\ EnterSetup("run")
  /\ runLog' = <<<<"setup_driver", NoHandle>>>> /\ attSnapshot' = <<>>
  /\ UNCHANGED <<callerVars, handleVars, ensureVars, loginVars,
                 loginAttemptsCall, loginAttemptsReq>>

\* run_attendance_scraper, run_timetable_scraper, run_unified_scraper: entry.
AttStart == pc = "att_start" /\ EnterRun
TtStart  == pc = "tt_start" /\ EnterRun
UniStart == pc = "uni_start" /\ EnterRun

\* run_attendance_scraper: "except Exception as e": quit the handle if there
\* is one (a raising quit() propagates to the caller), return an error.
AttHandler ==
  /\ quitSet' = QuitIfDriver(driver, quitSet)
  /\ \E qr \in BOOLEAN :
       runResult' = IF qr /\ driver # NoHandle THEN "raised" ELSE "error"
  /\ exitPath' = "exception"
  /\ pc' = "run_ret"

\* run_attendance_scraper: an early "return {'status': 'error', ...}".
\* These returns leave the try statement, which has no finally clause,
\* without calling quit().
AttEarlyReturn(path) ==
  /\ UNCHANGED quitSet
  /\ runResult' = "error"
  /\ exitPath' = path
  /\ pc' = "run_ret"

\* run_timetable_scraper / run_unified_scraper: a return through the finally
\* clause, which quits self.driver when it is set and swallows quit errors.
FinallyReturn(status, path) ==
  /\ quitSet' = QuitIfDriver(driver, quitSet)
  /\ runResult' = status
  /\ exitPath' = path
  /\ pc' = "run_ret"

\* Return of setup_driver to run_attendance_scraper.
AttAfterSetup ==
  IF pc = "setup_ok"
    THEN /\ runHandle' = driver
         /\ \E o \in {"ok", "raise"} :       \* self.apply_timeouts()
              \/ /\ o = "ok"
                 /\ pc' = "ensure" /\ elRet' = "att_login"
                 /\ UNCHANGED <<quitSet, runResult, exitPath>>
              \/ /\ o = "raise"
                 /\ AttHandler
                 /\ UNCHANGED elRet
    ELSE /\ AttHandler
         /\ UNCHANGED <<runHandle, elRet>>

\* Return of setup_driver to run_timetable_scraper.
TtAfterSetup ==
  IF pc = "setup_ok"
    THEN /\ runHandle' = driver
         /\ pc' = "ensure" /\ elRet' = "tt_login"
         /\ UNCHANGED <<quitSet, runResult, exitPath>>
    ELSE /\ FinallyReturn("error", "driver_setup")
         /\ UNCHANGED <<runHandle, elRet>>

\* Return of setup_driver to run_unified_scraper.
UniAfterSetup ==
  IF pc = "setup_ok"
    THEN /\ runHandle' = driver
         /\ pc' = "ensure" /\ elRet' = "uni_login"
         /\ UNCHANGED <<quitSet, runResult, exitPath>>
    ELSE /\ FinallyReturn("error", "exception")
         /\ UNCHANGED <<runHandle, elRet>>

\* Return of setup_driver to ensure_login ("if not self.driver:
\* self.setup_driver()"): login() follows, a raise propagates.
EnsureAfterSetup ==
  /\ IF pc = "setup_ok"
       THEN /\ pc' = "login_page"
            /\ EnterLogin
            /\ UNCHANGED elResult
       ELSE /\ pc' = "ensure_ret"
            /\ elResult' = "raise"
            /\ UNCHANGED <<loginVars, countVars, runLog>>
  /\ UNCHANGED <<quitSet, elRet, runHandle, runResult, exitPath>>

\* Return of setup_driver (normal or raising) to the run_* function or to the
\* ensure_login that called it.
RunAfterSetup ==
  /\ UNCHANGED auxVars
  /\ pc \in {"setup_ok", "setup_raise"}
  /\ suRet \in {"run", "ensure"}
  /\ CASE suRet = "ensure"     -> EnsureAfterSetup
       [] stype = "attendance" -> AttAfterSetup /\ UNCHANGED <<elResult, loginVars, countVars, runLog>>
       [] stype = "timetable"  -> TtAfterSetup /\ UNCHANGED <<elResult, loginVars, countVars, runLog>>
       [] OTHER                -> UniAfterSetup /\ UNCHANGED <<elResult, loginVars, countVars, runLog>>
  /\ UNCHANGED <<callerVars, driver, is_logged_in, nHandles, cookieJar, setupVars,
                 elEntryLogged, elBrowser,
                 tt_login_attempt, ensureTrue, navigated, extracted, persisted,
                 attStatus, marksStatus, ttStatus, attSnapshot>>

\* ------------------------------------------------------------------------
\* Variant: a False result is taken for success.
LoginSucceeded_IgnoresFailure(r) == r \in {"true", "false"}

\* The callers' test of the value ensure_login returned ("if not success",
\* "if login_success", "if not login_success").
LoginSucceeded(r) == r = "true"

\* run_attendance_scraper: "success = self.ensure_login()" has returned.
AttAfterLogin ==
  /\ UNCHANGED auxVars
  /\ pc = "ensure_ret" /\ elRet = "att_login"
  /\ CASE elResult # "raise" /\ LoginSucceeded(elResult) ->
            \* html_source = self.get_attendance_page(), which starts with
            \* "if not self.ensure_login(): return None"
            /\ ensureTrue' = (elResult = "true")
            /\ pc' = "ensure" /\ elRet' = "att_page"
            /\ UNCHANGED <<quitSet, runResult, exitPath>>
       [] elResult = "false" ->
            /\ AttEarlyReturn("login_failed")
            /\ UNCHANGED <<ensureTrue, elRet>>
       [] OTHER ->
            /\ AttHandler
            /\ UNCHANGED <<ensureTrue, elRet>>
  /\ UNCHANGED <<callerVars, driver, is_logged_in, nHandles, cookieJar, setupVars,
                 elResult, elEntryLogged, elBrowser, loginVars,
                 runHandle, tt_login_attempt, navigated, extracted, persisted,
                 attStatus, marksStatus, ttStatus, countVars, logVars>>

\* get_attendance_page after its ensure_login, and the caller's test of the
\* HTML it returns (run_attendance_scraper).
\* o = "raise": driver.get(ATTENDANCE_PAGE_URL) or page_source raises.
\* o = "empty": page_source is empty.   o = "html": it is not.
\* The two wait timeouts are caught inside get_attendance_page.
AttGetPage ==
  /\ UNCHANGED auxVars
  /\ pc = "ensure_ret" /\ elRet = "att_page"
  /\ CASE elResult = "true" ->
            /\ navigated' = TRUE
            /\ runLog' = Append(runLog, <<"nav_attendance", driver>>)
            /\ ensureTrue' = TRUE
            /\ \E o \in {"raise", "empty", "html"} :
                 \/ o = "raise" /\ AttHandler
                 \/ o = "empty" /\ AttEarlyReturn("page_load_failed")
                 \/ /\ o = "html"
                    /\ pc' = "att_extract"
                    /\ UNCHANGED <<quitSet, runResult, exitPath>>
       [] elResult = "false" ->
            /\ AttEarlyReturn("page_load_failed")
            /\ UNCHANGED <<navigated, ensureTrue, runLog>>
       [] OTHER ->
            /\ AttHandler
            /\ UNCHANGED <<navigated, ensureTrue, runLog>>
  /\ UNCHANGED <<callerVars, driver, is_logged_in, nHandles, cookieJar, setupVars,
                 ensureVars, loginVars, runHandle, tt_login_attempt,
                 extracted, persisted, attStatus, marksStatus, ttStatus, countVars,
                 attSnapshot>>

\* run_attendance_scraper from extract_registration_number to the end.
\* o = "noreg":  no registration number found.
\* o = "nouser": get_user_id_robust returns nothing.
\* o = "raise":  one of the calls raises.
\* o = "ok":     both parsers ran; then self.driver.quit(), which may raise
\*               into the handler.
AttExtract ==
  /\ UNCHANGED auxVars
  /\ pc = "att_extract"
  /\ extracted' = TRUE
  /\ \E o \in {"noreg", "nouser", "raise", "ok"} :
       \/ o = "noreg" /\ AttEarlyReturn("no_registration_number") /\ UNCHANGED persisted
       \/ o = "nouser" /\ AttEarlyReturn("no_user") /\ UNCHANGED persisted
       \/ o = "raise" /\ AttHandler /\ persisted' \in BOOLEAN
       \/ /\ o = "ok"
          /\ persisted' \in BOOLEAN
          /\ quitSet' = quitSet \cup {driver}
          /\ pc' = "run_ret"
          /\ \E o2 \in {"quit_ok", "quit_raise", "quit_raise_twice"} :
               /\ runResult' = CASE o2 = "quit_ok" -> "success"
                                 [] o2 = "quit_raise" -> "error"
                                 [] OTHER -> "raised"
               /\ exitPath' = IF o2 = "quit_ok" THEN "normal" ELSE "exception"
  /\ UNCHANGED <<callerVars, driver, is_logged_in, nHandles, cookieJar, setupVars,
                 ensureVars, loginVars, runHandle, tt_login_attempt, ensureTrue,
                 navigated, attStatus, marksStatus, ttStatus, countVars, logVars>>

\* ------------------------------------------------------------------------
\* Calls of ensure_login that run_timetable_scraper makes before giving up.
TimetableLoginBudget == max_login_attempts

\* run_timetable_scraper: one iteration of "for login_attempt in
\* range(max_login_attempts)" after ensure_login returned or raised.
TtAfterLogin ==
  /\ UNCHANGED auxVars
  /\ pc = "ensure_ret" /\ elRet = "tt_login"
  /\ IF elResult # "raise" /\ LoginSucceeded(elResult)
       THEN /\ ensureTrue' = (elResult = "true")
            /\ pc' = "tt_nav"
            /\ UNCHANGED <<tt_login_attempt, quitSet, runResult, exitPath>>
       ELSE /\ tt_login_attempt' = tt_login_attempt + 1
            /\ UNCHANGED ensureTrue
            /\ IF tt_login_attempt + 1 < TimetableLoginBudget
                 THEN /\ pc' = "ensure"
                      /\ UNCHANGED <<quitSet, runResult, exitPath>>
                 ELSE FinallyReturn("error", "login_failed")
  /\ UNCHANGED <<callerVars, driver, is_logged_in, nHandles, cookieJar, setupVars,
                 ensureVars, loginVars, runHandle, navigated, extracted, persisted,
                 attStatus, marksStatus, ttStatus, countVars, logVars>>

\* run_timetable_scraper: step 3, the three attempts to load TIMETABLE_URL,
\* and step 4, whose errors are all caught.  Then scrape_timetable calls
\* get_timetable_page, which starts with ensure_login.
\* o = "none": every attempt raised, timetable_html is still None.
TtNav ==
  /\ UNCHANGED auxVars
  /\ pc = "tt_nav"
  /\ navigated' = TRUE
  /\ runLog' = Append(runLog, <<"nav_timetable", driver>>)
  /\ \E o \in {"none", "html"} :
       \/ o = "none" /\ FinallyReturn("error", "page_load_failed") /\ UNCHANGED elRet
       \/ /\ o = "html"
          /\ pc' = "ensure" /\ elRet' = "tt_page"
          /\ UNCHANGED <<quitSet, runResult, exitPath>>
  /\ UNCHANGED <<callerVars, driver, is_logged_in, nHandles, cookieJar, setupVars,
                 elResult, elEntryLogged, elBrowser, loginVars, runHandle,
                 tt_login_attempt, ensureTrue, extracted, persisted,
                 attStatus, marksStatus, ttStatus, countVars, attSnapshot>>

\* run_timetable_scraper: steps 5 and 6 after get_timetable_page's
\* ensure_login: scrape, merge, store, return.
\* o = "scrape_raise": scrape_timetable / scrape_timetable_alternative raises.
\* o = "merge_fail":   merge_timetable_with_courses fails or raises.
\* o = "ok":           merged; the store is tried, the result is success
\*                     whether or not the store accepted the write.
TtScrape ==
  /\ UNCHANGED auxVars
  /\ pc = "ensure_ret" /\ elRet = "tt_page"
  /\ IF elResult = "raise"
       THEN /\ FinallyReturn("error", "scraping_failed")
            /\ UNCHANGED <<navigated, extracted, persisted, ensureTrue, runLog>>
       ELSE /\ navigated' = (navigated \/ elResult = "true")
            /\ runLog' = IF elResult = "true"
                           THEN Append(runLog, <<"nav_timetable", driver>>)
                           ELSE runLog
            /\ ensureTrue' = (ensureTrue \/ elResult = "true")
            /\ extracted' = TRUE
            /\ \E o \in {"scrape_raise", "merge_fail", "ok"} :
                 \/ /\ o = "scrape_raise"
                    /\ FinallyReturn("error", "scraping_failed")
                    /\ UNCHANGED persisted
                 \/ /\ o = "merge_fail"
                    /\ FinallyReturn("error", "merging_failed")
                    /\ UNCHANGED persisted
                 \/ /\ o = "ok"
                    /\ persisted' = TRUE
                    /\ FinallyReturn("success", "normal")
  /\ UNCHANGED <<callerVars, driver, is_logged_in, nHandles, cookieJar, setupVars,
                 ensureVars, loginVars, runHandle, tt_login_attempt,
                 attStatus, marksStatus, ttStatus, countVars, attSnapshot>>

\* ------------------------------------------------------------------------
\* run_unified_scraper: "login_success = self.ensure_login()" has returned.
UniAfterLogin ==
  /\ UNCHANGED auxVars
  /\ pc = "ensure_ret" /\ elRet = "uni_login"
  /\ CASE elResult # "raise" /\ LoginSucceeded(elResult) ->
            /\ ensureTrue' = (elResult = "true")
            /\ pc' = "ensure" /\ elRet' = "uni_att_page"
            /\ UNCHANGED <<quitSet, runResult, exitPath>>
       [] elResult = "false" ->
            /\ FinallyReturn("error", "login_failed")
            /\ UNCHANGED <<ensureTrue, elRet>>
       [] OTHER ->
            /\ FinallyReturn("error", "exception")
            /\ UNCHANGED <<ensureTrue, elRet>>
  /\ UNCHANGED <<callerVars, driver, is_logged_in, nHandles, cookieJar, setupVars,
                 elResult, elEntryLogged, elBrowser, loginVars,
                 runHandle, tt_login_attempt, navigated, extracted, persisted,
                 attStatus, marksStatus, ttStatus, countVars, logVars>>

\* run_unified_scraper: the attendance try block, entered at the return of
\* get_attendance_page's ensure_login.
\* o = "raise":  something in the block raises (both statuses error).
\* o = "nohtml": get_attendance_page returned nothing (both statuses error).
\* o = "noreg", "nouser": no registration number / no user id; the code sets
\*               no status on these branches.
\* o = "done":   both parsers ran and each reported success or failure.
UniAttendance ==
  /\ UNCHANGED auxVars
  /\ pc = "ensure_ret" /\ elRet = "uni_att_page"
  /\ navigated' = (elResult = "true")
  /\ \E o \in {"raise", "nohtml", "noreg", "nouser", "done"} :
       /\ (elResult = "raise" => o = "raise")
       /\ (elResult = "false" => o = "nohtml")
       /\ extracted' = (o \in {"noreg", "nouser", "done"})
       /\ CASE o \in {"raise", "nohtml"} ->
                 attStatus' = "error" /\ marksStatus' = "error" /\ persisted' = FALSE
            [] o \in {"noreg", "nouser"} ->
                 UNCHANGED <<attStatus, marksStatus>> /\ persisted' = FALSE
            [] OTHER ->
                 /\ attStatus' \in {"success", "error"}
                 /\ marksStatus' \in {"success", "error"}
                 /\ persisted' \in BOOLEAN
       /\ attSnapshot' = <<attStatus', marksStatus'>>
  /\ runLog' = (IF elResult = "true"
                  THEN Append(runLog, <<"nav_attendance", driver>>)
                  ELSE runLog) \o <<<<"attendance_done", driver>>>>
  /\ pc' = "uni_tt"
  /\ UNCHANGED <<callerVars, handleVars, setupVars, ensureVars, loginVars,
                 runHandle, tt_login_attempt, runResult, exitPath, ensureTrue,
                 ttStatus, countVars>>

\* Variant: anything short of three successes is reported as error.
OverallStatus_Collapsed(a, m, t) ==
  IF a = "success" /\ m = "success" /\ t = "success" THEN "success" ELSE "error"

\* run_unified_scraper: the overall status from the three artifact statuses.
OverallStatus(a, m, t) ==
  IF a = "success" /\ m = "success" /\ t = "success" THEN "success"
  ELSE IF a = "error" /\ m = "error" /\ t = "error" THEN "error"
  ELSE "partial_success"

\* run_unified_scraper: the timetable try block up to scrape_timetable, which
\* calls get_timetable_page and so ensure_login.
\* o = "raise": driver.get(TIMETABLE_URL) or a later call raises.
\* o = "notloaded": readyState never became complete.
UniTimetableNav ==
  /\ UNCHANGED auxVars
  /\ pc = "uni_tt"
  /\ navigated' = TRUE
  /\ runLog' = Append(runLog, <<"nav_timetable", driver>>)
  /\ \E o \in {"raise", "notloaded", "loaded"} :
       \/ /\ o \in {"raise", "notloaded"}
          /\ ttStatus' = "error"
          /\ FinallyReturn(OverallStatus(attStatus, marksStatus, "error"), "normal")
          /\ UNCHANGED elRet
       \/ /\ o = "loaded"
          /\ pc' = "ensure" /\ elRet' = "uni_tt_page"
          /\ UNCHANGED <<ttStatus, quitSet, runResult, exitPath>>
  /\ UNCHANGED <<callerVars, driver, is_logged_in, nHandles, cookieJar, setupVars,
                 elResult, elEntryLogged, elBrowser, loginVars, runHandle,
                 tt_login_attempt, ensureTrue, extracted, persisted,
                 attStatus, marksStatus, countVars, attSnapshot>>

\* run_unified_scraper: the rest of the timetable try block, the overall
\* status and the return through the finally clause.
\* o = "raise", "nodata", "merge_fail": the timetable artifact fails.
UniTimetableScrape ==
  /\ UNCHANGED auxVars
  /\ pc = "ensure_ret" /\ elRet = "uni_tt_page"
  /\ runLog' = IF elResult = "true"
                 THEN Append(runLog, <<"nav_timetable", driver>>)
                 ELSE runLog
  /\ \E o \in {"raise", "nodata", "merge_fail", "ok"} :
       /\ (elResult = "raise" => o = "raise")
       /\ extracted' = (extracted \/ o # "raise")
       /\ persisted' = (persisted \/ o = "ok")
       /\ ttStatus' = IF o = "ok" THEN "success" ELSE "error"
       /\ FinallyReturn(OverallStatus(attStatus, marksStatus, ttStatus'), "normal")
  /\ UNCHANGED <<callerVars, driver, is_logged_in, nHandles, cookieJar, setupVars,
                 ensureVars, loginVars, runHandle, tt_login_attempt, ensureTrue,
                 navigated, attStatus, marksStatus, countVars, attSnapshot>>

\* ------------------------------------------------------------------------
\* run_scraper_in_background: the job record is created, the scraper is
\* constructed, and either the cookie branch or the run_* call starts.
BgStart ==
  /\ UNCHANGED auxVars
  /\ pc = "start" /\ entry = "bg"
  /\ jobStatus' = "running"
  /\ IF cookies
       THEN pc' = "setup" /\ EnterSetup("bg")
       ELSE pc' = RunStart(stype) /\ UNCHANGED setupVars
  /\ UNCHANGED <<entry, stype, cookies, driver_created, cliAttempt, cliStatus,
                 handleVars, ensureVars, loginVars, runVars, countVars, logVars>>

\* run_scraper_in_background, cookie branch after scraper.setup_driver():
\* load the portal, add the cookies, set is_logged_in, call run_*.
\* A raise goes to the inner handler (status error) and the finally clause.
BgAfterSetup ==
  /\ UNCHANGED auxVars
  /\ pc \in {"setup_ok", "setup_raise"} /\ suRet = "bg"
  /\ IF pc = "setup_raise"
       THEN /\ jobStatus' = "error"
            /\ pc' = "done"
            /\ UNCHANGED <<driver_created, handleVars>>
       ELSE /\ driver_created' = TRUE
            /\ \E o \in {"raise", "ok"} :
                 \/ /\ o = "raise"
                    /\ jobStatus' = "error"
                    /\ quitSet' = QuitIfDriver(driver, quitSet)
                    /\ pc' = "done"
                    /\ UNCHANGED <<cookieJar, is_logged_in>>
                 \/ /\ o = "ok"
                    /\ cookieJar' = cookieJar \cup {driver}
                    /\ is_logged_in' = TRUE
                    /\ pc' = RunStart(stype)
                    /\ UNCHANGED <<jobStatus, quitSet>>
            /\ UNCHANGED <<driver, nHandles>>
  /\ UNCHANGED <<entry, stype, cookies, cliAttempt, cliStatus, setupVars, ensureVars,
                 loginVars, runVars, countVars, logVars>>

\* Variant: the handler of a raising run_* call leaves the record alone.
TerminalStatus_HandlerWritesNothing(r) == IF r = "raised" THEN "running" ELSE "completed"

\* run_scraper_in_background: the status written after the run_* call,
\* "completed" when it returned a result (whatever the result's own status),
\* "error" from the handler when it raised.
TerminalStatus(r) == IF r = "raised" THEN "error" ELSE "completed"

\* run_scraper_in_background after the run_* call: the terminal status and
\* the finally clause (quit only when this function created the driver).
BgAfterRun ==
  /\ UNCHANGED auxVars
  /\ pc = "run_ret" /\ entry = "bg"
  /\ jobStatus' = TerminalStatus(runResult)
  /\ quitSet' = IF driver_created THEN QuitIfDriver(driver, quitSet) ELSE quitSet
  /\ pc' = "done"
  /\ UNCHANGED <<entry, stype, cookies, driver_created, cliAttempt, cliStatus,
                 driver, is_logged_in, nHandles, cookieJar, setupVars, ensureVars,
                 loginVars, runVars, countVars, logVars>>

\* app.py login(), POST /api/login with an email and a password:
\* "scraper = SRMScraper(email, password); login_success = scraper.login()".
\* The position login() returns to is the one ensure_login returns to, which
\* hands login()'s result on unchanged.
ApiLogin ==
  /\ UNCHANGED auxVars
  /\ pc = "start" /\ entry = "api"
  /\ EnterLogin
  /\ elRet' = "api_login" /\ elResult' = "none"
  /\ pc' = "login_page"
  /\ UNCHANGED <<callerVars, handleVars, setupVars, elEntryLogged, elBrowser, runVars,
                 attSnapshot>>

\* The HTTP status of the /api/login response for each outcome of login():
\* 200 with the cookies, 401 when it returned False, 500 from the handler
\* when it raised.
ApiResponse(res) == CASE res = "true" -> 200 [] res = "false" -> 401 [] OTHER -> 500

\* app.py login() after scraper.login(): on success the cookies are read and
\* the browser is quit; otherwise nothing is quit.
ApiAfterLogin ==
  /\ UNCHANGED auxVars
  /\ pc = "ensure_ret" /\ elRet = "api_login"
  /\ quitSet' = IF ApiResponse(elResult) = 200 THEN QuitIfDriver(driver, quitSet)
                 ELSE quitSet
  /\ pc' = "done"
  /\ UNCHANGED <<callerVars, driver, is_logged_in, nHandles, cookieJar, setupVars,
                 ensureVars, loginVars, runVars, countVars, logVars>>

\* run_scraper: first iteration of the retry loop.
CliStart ==
  /\ UNCHANGED auxVars
  /\ pc = "start" /\ entry = "cli"
  /\ pc' = RunStart(stype)
  /\ UNCHANGED <<callerVars, handleVars, setupVars, ensureVars, loginVars, runVars,
                 countVars, logVars>>

\* run_scraper: the run_* call returned or raised; break on success or
\* partial_success, else the next iteration while attempts remain.
CliAfterRun ==
  /\ UNCHANGED auxVars
  /\ pc = "run_ret" /\ entry = "cli"
  /\ cliStatus' = IF runResult = "raised" THEN cliStatus ELSE runResult
  /\ IF runResult \in {"success", "partial_success"}
       THEN pc' = "done" /\ UNCHANGED cliAttempt
       ELSE /\ cliAttempt' = cliAttempt + 1
            /\ pc' = IF cliAttempt + 1 > max_retries THEN "done" ELSE RunStart(stype)
  /\ UNCHANGED <<entry, stype, cookies, jobStatus, driver_created,
                 handleVars, setupVars, ensureVars, loginVars, runVars, countVars, logVars>>

Next ==
  \/ BgStart \/ BgAfterSetup \/ BgAfterRun
  \/ CliStart \/ CliAfterRun
  \/ ApiLogin \/ ApiAfterLogin
  \/ SetupAttempt \/ RunAfterSetup
  \/ EnsureLogin \/ LoginLoadPage \/ LoginVerify \/ LoginCookieAttempt
  \/ AttStart \/ AttAfterLogin \/ AttGetPage \/ AttExtract
  \/ TtStart \/ TtAfterLogin \/ TtNav \/ TtScrape
  \/ UniStart \/ UniAfterLogin \/ UniAttendance \/ UniTimetableNav \/ UniTimetableScrape

Spec == Init /\ [][Next]_vars

\* One background job (run_scraper_in_background) of any scraper type, with
\* or without cookies.  Its thread keeps being scheduled and every call it
\* makes returns or raises, so a step that is possible is eventually taken.
InitBg ==
  /\ \E t \in ScraperTypes, c \in BOOLEAN : ScraperInit("bg", t, c, "start")
  /\ UpsertIdle
  /\ JobsIdle
  /\ PureIdle
NextBg ==
  \/ BgStart \/ BgAfterSetup \/ BgAfterRun
  \/ SetupAttempt \/ RunAfterSetup
  \/ EnsureLogin \/ LoginLoadPage \/ LoginVerify \/ LoginCookieAttempt
  \/ AttStart \/ AttAfterLogin \/ AttGetPage \/ AttExtract
  \/ TtStart \/ TtAfterLogin \/ TtNav \/ TtScrape
  \/ UniStart \/ UniAfterLogin \/ UniAttendance \/ UniTimetableNav \/ UniTimetableScrape
SpecBg == InitBg /\ [][NextBg]_vars /\ WF_vars(NextBg)

\* ------------------------------------------------------------------------
\* upsert_attendance_data(user_id, attendance_json)

\* A scraper object that is not running a request (the other specifications
\* leave it alone).
ScraperIdle == ScraperInit("cli", "attendance", FALSE, "idle")
\* Nothing in progress in the parts that precede the merged schedule.
OldIdle == ScraperIdle /\ UpsertIdle /\ JobsIdle /\ DedupIdle /\ SlotIdle

\* A call of upsert_attendance_data for any owner and snapshot, on a table
\* that holds no row or one earlier row for each owner.
UpsertInit ==
  /\ u_pc = "select"
  /\ user_id \in Users /\ attendance_json \in Snapshots
  /\ attempt = 0 /\ record_exists = FALSE /\ u_result = "none"
  /\ u_attemptsMade = 0 /\ u_storeOk = FALSE
  /\ u_backupTried = FALSE /\ u_backupWritten = FALSE
  /\ attRows \in [Users -> {<<>>, <<"old">>, <<"new">>}]

\* Start of one iteration of "for attempt in range(max_attempts)": the
\* select; a raising select is caught and counts as "no record".
UpsertSelect ==
  /\ u_pc = "select"
  /\ attempt < max_attempts
  /\ u_attemptsMade' = u_attemptsMade + 1
  /\ \E o \in {"ok", "raise"} :
       record_exists' = (o = "ok" /\ Len(attRows[user_id]) > 0)
  /\ u_pc' = IF record_exists' THEN "update" ELSE "insert"
  /\ UNCHANGED <<user_id, attendance_json, attempt, u_result, u_storeOk,
                 u_backupTried, u_backupWritten, attRows>>
  /\ UNCHANGED <<scraperVars, jobsVars, pureVars>>

\* The update of the existing rows of the owner.
\* o = "data": rows updated and returned, return True.
\* o = "empty": empty response, fall through to the insert.
\* o = "raise": to the handler.
UpsertUpdate ==
  /\ u_pc = "update"
  /\ \E o \in {"data", "empty", "raise"} :
       \/ /\ o = "data"
          /\ attRows' = [attRows EXCEPT ![user_id] =
                           [i \in 1..Len(attRows[user_id]) |-> attendance_json]]
          /\ u_storeOk' = TRUE
          /\ u_result' = "true"
          /\ u_pc' = "done"
       \/ /\ o = "empty"
          /\ u_pc' = "insert"
          /\ UNCHANGED <<attRows, u_storeOk, u_result>>
       \/ /\ o = "raise"
          /\ u_pc' = "handler"
          /\ UNCHANGED <<attRows, u_storeOk, u_result>>
  /\ UNCHANGED <<user_id, attendance_json, attempt, record_exists, u_attemptsMade,
                 u_backupTried, u_backupWritten>>
  /\ UNCHANGED <<scraperVars, jobsVars, pureVars>>

\* The insert of a new row.
\* o = "data": row inserted and returned, return True.
\* o = "empty": empty response; the try block ends without a return and the
\*              "return False" that closes the loop body runs.
\* o = "raise": to the handler.
UpsertInsert ==
  /\ u_pc = "insert"
  /\ \E o \in {"data", "empty", "raise"} :
       \/ /\ o = "data"
          /\ attRows' = [attRows EXCEPT ![user_id] = Append(@, attendance_json)]
          /\ u_storeOk' = TRUE
          /\ u_result' = "true"
          /\ u_pc' = "done"
       \/ /\ o = "empty"
          /\ u_result' = "false"
          /\ u_pc' = "done"
          /\ UNCHANGED <<attRows, u_storeOk>>
       \/ /\ o = "raise"
          /\ u_pc' = "handler"
          /\ UNCHANGED <<attRows, u_storeOk, u_result>>
  /\ UNCHANGED <<user_id, attendance_json, attempt, record_exists, u_attemptsMade,
                 u_backupTried, u_backupWritten>>
  /\ UNCHANGED <<scraperVars, jobsVars, pureVars>>

\* "except Exception as e": before the last attempt the handler sleeps and
\* falls out of the try statement onto the "return False" that is indented
\* into the loop body, so the function returns after its first iteration; on
\* the last attempt it writes the backup file and returns its outcome.
UpsertHandler ==
  /\ u_pc = "handler"
  /\ IF attempt < max_attempts - 1
       THEN /\ u_result' = "false"
            /\ UNCHANGED <<u_backupTried, u_backupWritten>>
       ELSE /\ u_backupTried' = TRUE
            /\ u_backupWritten' \in BOOLEAN
            /\ u_result' = IF u_backupWritten' THEN "true" ELSE "false"
  /\ u_pc' = "done"
  /\ UNCHANGED <<user_id, attendance_json, attempt, record_exists, u_attemptsMade,
                 u_storeOk, attRows>>
  /\ UNCHANGED <<scraperVars, jobsVars, pureVars>>

InitUpsert == ScraperIdle /\ UpsertInit /\ JobsIdle /\ PureIdle
NextUpsert == UpsertSelect \/ UpsertUpdate \/ UpsertInsert \/ UpsertHandler
SpecUpsert == InitUpsert /\ [][NextUpsert]_vars

\* ------------------------------------------------------------------------
\* app.py: submit endpoints, worker threads and active_jobs

\* Writing a status into a job record: the record's new content, and whether
\* a record that already held a terminal status received a different status.
Terminal(st) == st \in {"completed", "error"}
StatusRegresses(old, new) == Terminal(old) /\ new # old

\* A submit endpoint (scrape_data, scrape_timetable, scrape_all,
\* refresh_data) accepts a request and starts the worker thread.
Submit(w) ==
  /\ w_pc[w] = "unborn"
  /\ \E u \in Users, e \in Endpoints :
       /\ w_email' = [w_email EXCEPT ![w] = u]
       /\ w_endpoint' = [w_endpoint EXCEPT ![w] = e]
  /\ w_pc' = [w_pc EXCEPT ![w] = "spawned"]
  /\ UNCHANGED <<now, active_jobs, w_job, r_job, termWrites, regressed>>
  /\ UNCHANGED <<scraperVars, upsertVars, pureVars>>

\* The endpoint, after thread.start(), builds the job_id of its response.
Respond(w) ==
  /\ w_pc[w] # "unborn"
  /\ r_job[w] = <<>>
  /\ r_job' = [r_job EXCEPT ![w] = <<w_email[w], ResponseLabel(w_endpoint[w]), now>>]
  /\ UNCHANGED <<now, active_jobs, w_pc, w_email, w_endpoint, w_job, termWrites, regressed>>
  /\ UNCHANGED <<scraperVars, upsertVars, pureVars>>

\* run_scraper_in_background: job_id = f"{email}_{scraper_type}_{int(time.time())}"
JobId(w) ==
  /\ w_pc[w] = "spawned"
  /\ w_job' = [w_job EXCEPT ![w] = <<w_email[w], WorkerType(w_endpoint[w]), now>>]
  /\ w_pc' = [w_pc EXCEPT ![w] = "named"]
  /\ UNCHANGED <<now, active_jobs, w_email, w_endpoint, r_job, termWrites, regressed>>
  /\ UNCHANGED <<scraperVars, upsertVars, pureVars>>

\* run_scraper_in_background: active_jobs[job_id] = {"status": "running", ...}
JobRunning(w) ==
  /\ w_pc[w] = "named"
  /\ active_jobs' = [active_jobs EXCEPT ![w_job[w]] = "running"]
  /\ regressed' = (regressed \/ StatusRegresses(active_jobs[w_job[w]], "running"))
  /\ w_pc' = [w_pc EXCEPT ![w] = "running"]
  /\ UNCHANGED <<now, w_email, w_endpoint, w_job, r_job, termWrites>>
  /\ UNCHANGED <<scraperVars, upsertVars, pureVars>>

\* run_scraper_in_background: the scraper ran; "completed" is written when
\* the run_* call returned, "error" when it (or the cookie set-up) raised.
JobFinish(w) ==
  /\ w_pc[w] = "running"
  /\ \E st \in {"completed", "error"} :
       /\ active_jobs' = [active_jobs EXCEPT ![w_job[w]] = st]
       /\ regressed' = (regressed \/ StatusRegresses(active_jobs[w_job[w]], st))
  /\ termWrites' = [termWrites EXCEPT ![w_job[w]] = @ + 1]
  /\ w_pc' = [w_pc EXCEPT ![w] = "finished"]
  /\ UNCHANGED <<now, w_email, w_endpoint, w_job, r_job>>
  /\ UNCHANGED <<scraperVars, upsertVars, pureVars>>

\* The wall clock reaches the next second.
Tick ==
  /\ now < MaxTime
  /\ now' = now + 1
  /\ UNCHANGED <<active_jobs, w_pc, w_email, w_endpoint, w_job, r_job, termWrites, regressed>>
  /\ UNCHANGED <<scraperVars, upsertVars, pureVars>>

InitJobs == ScraperIdle /\ UpsertIdle /\ JobsIdle /\ PureIdle
NextJobs ==
  \/ Tick
  \/ \E w \in Workers : Submit(w)
  \/ \E w \in Workers : Respond(w)
  \/ \E w \in Workers : JobId(w)
  \/ \E w \in Workers : JobRunning(w)
  \/ \E w \in Workers : JobFinish(w)
SpecJobs == InitJobs /\ [][NextJobs]_vars

\* ------------------------------------------------------------------------
\* parse_and_save_attendance_robust: "# Deduplicate records"

CourseCodes == {"C1", "C2"}
Categories == {"", "Theory"}
Faculties == {"", "F1", "F2"}
\* A parsed record: string fields that may be empty and a numeric field
\* (hours_conducted, 0 when the cell did not parse).
Records == [course_code : CourseCodes, category : Categories, faculty : Faculties,
            hours_conducted : {0}]
RecordLists == UNION {[1..n -> Records] : n \in 0..MaxRecords}

\* key = (course_code, category) if category else course_code
DedupKey(r) == IF r.category # "" THEN <<r.course_code, r.category>> ELSE <<r.course_code>>

\* _record_completeness: the fields whose value is neither None nor "";
\* a number, 0 included, is neither.
record_completeness(r) ==
  (IF r.course_code # "" THEN 1 ELSE 0) + (IF r.category # "" THEN 1 ELSE 0)
    + (IF r.faculty # "" THEN 1 ELSE 0) + 1

\* Variant: a record as complete as the stored one replaces it.
Replaces_OnTie(new, old) == record_completeness(new) >= record_completeness(old)

\* "self._record_completeness(record) > self._record_completeness(deduplicated_records[key])"
Replaces(new, old) == record_completeness(new) > record_completeness(old)

\* Variant: a new key is put before the keys already present.
InsertKey_AtFront(acc, r) == <<r>> \o acc

\* "deduplicated_records[key] = record" for a key not yet present: a dict
\* keeps its keys in insertion order, the new one last.
InsertKey(acc, r) == Append(acc, r)

\* The loop over attendance_records; acc is list(deduplicated_records.values()).
RECURSIVE DedupFold(_, _)
DedupFold(recs, acc) ==
  IF recs = <<>> THEN acc
  ELSE LET r == Head(recs)
           at == {i \in DOMAIN acc : DedupKey(acc[i]) = DedupKey(r)}
       IN IF at = {}
            THEN DedupFold(Tail(recs), InsertKey(acc, r))
            ELSE LET i == CHOOSE i \in at : TRUE
                 IN IF Replaces(r, acc[i])
                      THEN DedupFold(Tail(recs), [acc EXCEPT ![i] = r])
                      ELSE DedupFold(Tail(recs), acc)

Deduplicate(recs) == DedupFold(recs, <<>>)

\* Any list of parsed records.
DedupInit ==
  /\ d_pc = "parsed"
  /\ attendance_records \in RecordLists
  /\ deduplicated_records = <<>> /\ deduplicated_again = <<>>

DedupStep ==
  /\ d_pc = "parsed"
  /\ deduplicated_records' = Deduplicate(attendance_records)
  /\ d_pc' = "deduplicated"
  /\ UNCHANGED <<attendance_records, deduplicated_again>>
  /\ UNCHANGED <<scraperVars, upsertVars, jobsVars, slotVars, moreVars>>

\* The step applied to the list it produced.
DedupAgain ==
  /\ d_pc = "deduplicated"
  /\ deduplicated_again' = Deduplicate(deduplicated_records)
  /\ d_pc' = "again"
  /\ UNCHANGED <<attendance_records, deduplicated_records>>
  /\ UNCHANGED <<scraperVars, upsertVars, jobsVars, slotVars, moreVars>>

InitDedup == ScraperIdle /\ UpsertIdle /\ JobsIdle /\ DedupInit /\ SlotIdle /\ MoreIdle
NextDedup == DedupStep \/ DedupAgain
SpecDedup == InitDedup /\ [][NextDedup]_vars

\* ------------------------------------------------------------------------
\* merge_timetable_with_courses: the first pass, which builds
\* enhanced_mapping from the slot text of a course.  A string is a sequence
\* of one-character strings.

DigitChars == {"0", "1", "2", "3", "4", "5", "6", "7", "8", "9"}
\* Period numbers as they are written in a slot.
PeriodNumbers == {<<"7">>, <<"3", "7">>, <<"3", "8">>, <<"3", "9">>}
SlotCourses == {"c1", "c2"}
PeriodLists == UNION {[1..n -> PeriodNumbers] : n \in 2..MaxPeriods}

\* The two ways the portal writes a multi-period lab slot.
RECURSIVE WriteSlot(_, _)
WriteSlot(form, ps) ==
  IF ps = <<>> THEN <<>>
  ELSE <<"P">> \o Head(ps) \o <<"-">>
       \o (IF form = "P-P"
             THEN WriteSlot(form, Tail(ps))
             ELSE LET RECURSIVE Rest(_)
                      Rest(qs) == IF qs = <<>> THEN <<>>
                                  ELSE Head(qs) \o <<"-">> \o Rest(Tail(qs))
                  IN Rest(Tail(ps)))

\* Length of the longest run of digits of s that starts at position i.
RECURSIVE DigitRun(_, _)
DigitRun(s, i) ==
  IF i <= Len(s) /\ s[i] \in DigitChars THEN 1 + DigitRun(s, i + 1) ELSE 0

\* Length of the match of P\d+- at position i of s, 0 when there is none.
MatchPNumDash(s, i) ==
  LET n == DigitRun(s, i + 1)
  IN IF i <= Len(s) /\ s[i] = "P" /\ n >= 1 /\ i + 1 + n <= Len(s) /\ s[i + 1 + n] = "-"
       THEN n + 2 ELSE 0

\* re.search(r'P\d+-P\d+-', slot)
SearchPDashP(s) ==
  \E i \in 1..Len(s) :
    LET m == MatchPNumDash(s, i)
    IN m > 0 /\ MatchPNumDash(s, i + m) > 0

\* re.findall(r'(P\d+)-', slot): the captures of the matches found from
\* position i on, left to right, without overlap.
RECURSIVE FindAllPNum(_, _)
FindAllPNum(s, i) ==
  IF i > Len(s) THEN <<>>
  ELSE LET m == MatchPNumDash(s, i)
       IN IF m > 0 THEN <<SubSeq(s, i, i + m - 2)>> \o FindAllPNum(s, i + m)
                   ELSE FindAllPNum(s, i + 1)

\* re.findall(r'(\d+)-', slot)
RECURSIVE FindAllNum(_, _)
FindAllNum(s, i) ==
  IF i > Len(s) THEN <<>>
  ELSE LET n == DigitRun(s, i)
       IN IF n >= 1 /\ i + n <= Len(s) /\ s[i + n] = "-"
            THEN <<SubSeq(s, i, i + n - 1)>> \o FindAllNum(s, i + n + 1)
            ELSE FindAllNum(s, i + 1)

\* Variant: the prefix is left out of the code.
WithPrefix_Dropped(prefix, num) == num

\* f"{prefix}{num}"
WithPrefix(prefix, num) == prefix \o num

\* slot_codes of a slot that contains "-", each code with its dash added.
SlotCodes(s) ==
  LET codes ==
        IF SearchPDashP(s) THEN FindAllPNum(s, 1)
        ELSE IF MatchPNumDash(s, 1) > 0      \* re.match(r'(P)(\d+)-', slot)
          THEN LET numbers == FindAllNum(s, 1)
               IN [k \in DOMAIN numbers |-> WithPrefix(<<"P">>, numbers[k])]
          ELSE <<>>
  IN [k \in DOMAIN codes |-> codes[k] \o <<"-">>]

\* The characters of a string.
Chars(s) == {s[i] : i \in DOMAIN s}

\* str.strip() for the blank character.
RECURSIVE LStrip(_)
LStrip(s) == IF s # <<>> /\ Head(s) = " " THEN LStrip(Tail(s)) ELSE s
RECURSIVE RStrip(_)
RStrip(s) == IF s # <<>> /\ s[Len(s)] = " " THEN RStrip(SubSeq(s, 1, Len(s) - 1)) ELSE s
strip(s) == RStrip(LStrip(s))

\* str.split(sep) for a one-character separator.
RECURSIVE split(_, _)
split(s, sep) ==
  IF sep \notin Chars(s) THEN <<s>>
  ELSE LET i == CHOOSE k \in DOMAIN s : s[k] = sep /\ \A j \in 1..(k - 1) : s[j] # sep
       IN <<SubSeq(s, 1, i - 1)>> \o split(SubSeq(s, i + 1, Len(s)), sep)

\* [s.strip() for s in slot.split("/") if s.strip()]
SlashParts(s) ==
  LET raw == split(s, "/")
  IN SelectSeq([k \in DOMAIN raw |-> strip(raw[k])], LAMBDA q : q # <<>>)

\* The keys under which the first pass registers a course with this slot.
SlotKeys(s) ==
  IF "/" \in Chars(s) /\ "-" \notin Chars(s)
    THEN {SlashParts(s)[k] : k \in DOMAIN SlashParts(s)}    \* "A/X" form
  ELSE IF "-" \in Chars(s)
    THEN {SlotCodes(s)[k] : k \in DOMAIN SlotCodes(s)} \cup {s}
    ELSE {s}

\* A course whose slot is a lab slot of 2..MaxPeriods periods in either form;
\* the mapping is still empty.
SlotInit ==
  /\ s_pc = "course"
  /\ slot_periods \in PeriodLists
  /\ slot_form \in {"P-P", "P-n"}
  /\ slot = WriteSlot(slot_form, slot_periods)
  /\ slot_course \in SlotCourses
  /\ enhanced_mapping = <<>>

\* One iteration of "for course in course_data".
MapSlot ==
  /\ s_pc = "course"
  /\ enhanced_mapping' = [k \in SlotKeys(slot) |-> slot_course]
  /\ s_pc' = "mapped"
  /\ UNCHANGED <<slot_periods, slot_form, slot, slot_course>>
  /\ UNCHANGED <<scraperVars, upsertVars, jobsVars, dedupVars, moreVars>>

InitSlots == ScraperIdle /\ UpsertIdle /\ JobsIdle /\ DedupIdle /\ SlotInit /\ MoreIdle
NextSlots == MapSlot
SpecSlots == InitSlots /\ [][NextSlots]_vars

\* ------------------------------------------------------------------------
\* merge_timetable_with_courses: the canonical schedule merged with the slot
\* map of a course list.  Strings are sequences of characters.

UpperChars == <<"A", "B", "C", "D", "E", "F", "G", "H", "I", "J", "K", "L", "M",
                "N", "O", "P", "Q", "R", "S", "T", "U", "V", "W", "X", "Y", "Z">>
LowerChars == <<"a", "b", "c", "d", "e", "f", "g", "h", "i", "j", "k", "l", "m",
                "n", "o", "p", "q", "r", "s", "t", "u", "v", "w", "x", "y", "z">>
\* str.lower()
lower(s) ==
  [i \in DOMAIN s |->
     IF \E k \in DOMAIN UpperChars : UpperChars[k] = s[i]
       THEN LowerChars[CHOOSE k \in DOMAIN UpperChars : UpperChars[k] = s[i]]
       ELSE s[i]]

is_empty_slot(slot_code) ==
  \/ slot_code = <<>> \/ strip(slot_code) = <<>>
  \/ lower(slot_code) \in {<<"e", "m", "p", "t", "y">>, <<"b", "r", "e", "a", "k">>, <<"-">>}

\* One day of a canonical schedule with every kind of code of
\* batch_1_timetable and batch_2_timetable ("A", "A/X", "P6-", "P12-/X",
\* "L11") and the codes of cells without a class.
official_tt ==
  << <<"A">>, <<"A", "/", "X">>, <<"B">>, <<"B", "/", "X">>,
     <<"P", "1", "-">>, <<"P", "2", "-", "/", "X">>, <<"L", "1", "1">>,
     <<>>, <<" ">>, <<"-">>, <<"b", "r", "e", "a", "k">>, <<"B", "r", "e", "a", "k">>,
     <<"B", "R", "E", "A", "K">>, <<"X">> >>
DigitSeq == <<"0", "1", "2", "3", "4", "5", "6", "7", "8", "9">>
\* The text of the time slot of a cell.
slot_times ==
  [i \in DOMAIN official_tt |->
     <<"t">> \o (IF i < 10 THEN <<DigitSeq[i + 1]>>
                 ELSE <<DigitSeq[(i \div 10) + 1], DigitSeq[(i % 10) + 1]>>)]

\* Course lists: the slot and the title of each scraped course.
CourseSlots == {<<>>, <<"A">>, <<"A", "/", "X">>, <<"X">>, <<"B">>,
                <<"P", "1", "-", "2", "-">>}
CourseTitles == {<<"m">>, <<"n">>}
Courses == [slot : CourseSlots, course_title : CourseTitles]
\* Each row of the list is a course of its own: its code is its place.
CourseLists ==
  UNION {{[i \in 1..n |-> [slot |-> f[i].slot, course_title |-> f[i].course_title,
                           course_code |-> <<"K", DigitSeq[i + 1]>>]] :
            f \in [1..n -> Courses]} : n \in 0..MaxCourses}

course_info(course) ==
  [title |-> strip(course.course_title), code |-> strip(course.course_code)]

\* The first pass: enhanced_mapping after "for course in course_data".
RECURSIVE BuildMapping(_, _)
BuildMapping(cs, m) ==
  IF cs = <<>> THEN m
  ELSE LET sl == strip(Head(cs).slot)
           keys == IF sl = <<>> THEN {} ELSE SlotKeys(sl)
       IN BuildMapping(Tail(cs),
                       [k \in (DOMAIN m) \cup keys |->
                          IF k \in keys THEN course_info(Head(cs)) ELSE m[k]])
EnhancedMapping(cs) == BuildMapping(cs, <<>>)

\* break_codes: the codes of the schedule with no entry in the mapping.
BreakCodes(tt, m) ==
  UNION {IF "/" \in Chars(tt[t])
           THEN {q \in {strip(split(tt[t], "/")[k]) : k \in DOMAIN split(tt[t], "/")} :
                   q # <<>> /\ q \notin DOMAIN m}
           ELSE IF tt[t] # <<>> /\ tt[t] \notin DOMAIN m THEN {tt[t]} ELSE {}
         : t \in DOMAIN tt}

\* Variant: a part without a course is kept, shown by its code.
PartCourses_Unfiltered(parts, m) ==
  [k \in DOMAIN parts |->
     IF parts[k] \in DOMAIN m THEN m[parts[k]] ELSE [title |-> parts[k], code |-> <<>>]]

\* matched: the courses of the parts that are in the mapping.
PartCourses(parts, m) ==
  LET ps == SelectSeq(parts, LAMBDA q : q \in DOMAIN m)
  IN [k \in DOMAIN ps |-> m[ps[k]]]

\* " / ".join(mc["title"] for mc in matched)
RECURSIVE JoinTitles(_)
JoinTitles(matched) ==
  IF matched = <<>> THEN <<>>
  ELSE IF Len(matched) = 1 THEN matched[1].title
  ELSE matched[1].title \o <<" ", "/", " ">> \o JoinTitles(Tail(matched))

\* f"{titles} ({time_slot})"
Display(titles, time_slot) == titles \o <<" ", "(">> \o time_slot \o <<")">>

\* The body of "for time_slot, slot_code in slots.items()".
MergeCell(slot_code, time_slot, m, break_codes) ==
  LET cell == [time |-> time_slot, original_slot |-> slot_code,
               courses |-> <<>>, display |-> <<>>]
  IN IF is_empty_slot(slot_code) THEN cell
     ELSE IF "/" \in Chars(slot_code)
       THEN LET matched == PartCourses(SlashParts(slot_code), m)
            IN IF matched # <<>>
                 THEN [cell EXCEPT !.display = Display(JoinTitles(matched), time_slot),
                                   !.courses = matched]
                 ELSE cell
     ELSE IF slot_code \in DOMAIN m
       THEN [cell EXCEPT !.display = Display(m[slot_code].title, time_slot),
                         !.courses = <<m[slot_code]>>]
       ELSE LET is_br == slot_code \in break_codes \/ slot_code = <<"X">>
            IN [cell EXCEPT !.display = IF is_br THEN <<>> ELSE slot_code]

MergeInit ==
  /\ m_pc = "courses"
  /\ course_data \in CourseLists
  /\ merged_tt = <<>>

\* merge_timetable_with_courses for a batch that is known.
Merge ==
  /\ m_pc = "courses"
  /\ LET m == EnhancedMapping(course_data)
         bc == BreakCodes(official_tt, m)
     IN merged_tt' = [t \in DOMAIN official_tt |->
                        MergeCell(official_tt[t], slot_times[t], m, bc)]
  /\ m_pc' = "merged"
  /\ UNCHANGED course_data
  /\ UNCHANGED <<oldVars, batchVars, parseVars, pageVars, titleVars, regVars, raceVars, userVars>>

InitMerge == OldIdle /\ MergeInit /\ BatchIdle /\ ParseIdle /\ PageIdle /\ TitleIdle /\ RegIdle /\ RaceIdle /\ UserIdle
NextMerge == Merge
SpecMerge == InitMerge /\ [][NextMerge]_vars

\* ------------------------------------------------------------------------
\* The batch handed to merge_timetable_with_courses by run_timetable_scraper
\* (step 4) and by the timetable block of run_unified_scraper.

\* What the page, the URL and the profile can give: a batch with a canonical
\* schedule, a number without one, or nothing.
PageBatches == {"none", "1", "2", "3", "raise"}
UrlBatches == {"none", "1", "3"}
ProfileBatches == {"none", "1", "2"}

\* The batch check at the head of merge_timetable_with_courses: the batch
\* merged against, "none" for the error result.
StudentBatch(batch_input, personal_details) ==
  IF batch_input \in {"1", "2"} THEN batch_input
  ELSE IF personal_details \in {"1", "2"} THEN personal_details
  ELSE "none"

\* batch_number = "1": "Default to batch 1 as safer option".
DefaultBatch == "1"

BatchInit ==
  /\ b_pc = "batch"
  /\ b_caller \in {"timetable", "unified"}
  /\ page_batch \in PageBatches
  /\ url_batch \in UrlBatches
  /\ profile_batch \in ProfileBatches
  /\ scraped \in {"rows", "none", "raise"}
  /\ batch_number = "none" /\ student_batch = "none" /\ tt_status = "none"

\* run_timetable_scraper, step 4: page, then URL, then profile, then the
\* default; an exception gives the default as well.
DetectBatchTimetable ==
  /\ b_pc = "batch" /\ b_caller = "timetable"
  /\ batch_number' =
       IF page_batch = "raise" THEN DefaultBatch
       ELSE IF page_batch # "none" THEN page_batch
       ELSE IF url_batch # "none" THEN url_batch
       ELSE IF profile_batch # "none" THEN profile_batch
       ELSE DefaultBatch
  /\ b_pc' = "scrape"
  /\ UNCHANGED <<b_caller, page_batch, url_batch, profile_batch, scraped,
                 student_batch, tt_status>>
  /\ UNCHANGED <<oldVars, mergeVars, parseVars, pageVars, titleVars, regVars, raceVars, userVars>>

\* run_unified_scraper: page, then profile, then the default; an exception
\* ends the timetable block with status "error".
DetectBatchUnified ==
  /\ b_pc = "batch" /\ b_caller = "unified"
  /\ IF page_batch = "raise"
       THEN /\ tt_status' = "error" /\ b_pc' = "done"
            /\ UNCHANGED batch_number
       ELSE /\ batch_number' =
                 IF page_batch # "none" THEN page_batch
                 ELSE IF profile_batch # "none" THEN profile_batch
                 ELSE DefaultBatch
            /\ b_pc' = "scrape"
            /\ UNCHANGED tt_status
  /\ UNCHANGED <<b_caller, page_batch, url_batch, profile_batch, scraped, student_batch>>
  /\ UNCHANGED <<oldVars, mergeVars, parseVars, pageVars, titleVars, regVars, raceVars, userVars>>

\* Scraping the course rows and merging them against batch_number.
ScrapeAndMerge ==
  /\ b_pc = "scrape"
  /\ LET merges == /\ scraped # "raise"
                   /\ (b_caller = "unified" => scraped = "rows")
         sb == IF merges THEN StudentBatch(batch_number, "none") ELSE "none"
     IN /\ student_batch' = sb
        /\ tt_status' = IF sb # "none" THEN "success" ELSE "error"
  /\ b_pc' = "done"
  /\ UNCHANGED <<b_caller, page_batch, url_batch, profile_batch, scraped, batch_number>>
  /\ UNCHANGED <<oldVars, mergeVars, parseVars, pageVars, titleVars, regVars, raceVars, userVars>>

InitBatch == OldIdle /\ MergeIdle /\ BatchInit /\ ParseIdle /\ PageIdle /\ TitleIdle /\ RegIdle /\ RaceIdle /\ UserIdle
NextBatch == DetectBatchTimetable \/ DetectBatchUnified \/ ScrapeAndMerge
SpecBatch == InitBatch /\ [][NextBatch]_vars

\* ------------------------------------------------------------------------
\* parse_and_save_attendance_robust: from the rows of an attendance table to
\* the list of records.  Cell texts are sequences of characters.

\* "sub in s": the position of the first occurrence of sub in s, 0 for none.
Find(s, sub) ==
  LET at == {i \in 1..(Len(s) - Len(sub) + 1) : SubSeq(s, i, i + Len(sub) - 1) = sub}
  IN IF at = {} THEN 0 ELSE CHOOSE i \in at : \A j \in at : i <= j

\* str.isdigit()
isdigit(s) == s # <<>> /\ \A i \in DOMAIN s : s[i] \in DigitChars

DigitValue(c) == CHOOSE d \in 0..9 : DigitSeq[d + 1] = c
RECURSIVE NatValue(_)
NatValue(s) ==
  IF s = <<>> THEN 0
  ELSE NatValue(SubSeq(s, 1, Len(s) - 1)) * 10 + DigitValue(s[Len(s)])

\* int(text): an optional sign and digits; ok is FALSE for a ValueError.
int(text) ==
  LET s == strip(text)
      signed == s # <<>> /\ s[1] \in {"-", "+"}
      body == IF signed THEN Tail(s) ELSE s
  IN IF isdigit(body)
       THEN [ok |-> TRUE,
             val |-> IF signed /\ s[1] = "-" THEN 0 - NatValue(body) ELSE NatValue(body)]
       ELSE [ok |-> FALSE, val |-> 0]

\* float(text) for decimal notation, the value in tenths (the texts used
\* have at most one digit after the point); ok is FALSE for a ValueError.
float(text) ==
  LET s == strip(text)
      signed == s # <<>> /\ s[1] \in {"-", "+"}
      body == IF signed THEN Tail(s) ELSE s
      dot == Find(body, <<".">>)
      whole == IF dot = 0 THEN body ELSE SubSeq(body, 1, dot - 1)
      frac == IF dot = 0 THEN <<>> ELSE SubSeq(body, dot + 1, Len(body))
      wellformed == /\ whole \o frac # <<>>
                    /\ \A i \in DOMAIN whole : whole[i] \in DigitChars
                    /\ \A i \in DOMAIN frac : frac[i] \in DigitChars
      tenths == NatValue(whole) * 10 + (IF frac = <<>> THEN 0 ELSE DigitValue(frac[1]))
  IN IF wellformed
       THEN [ok |-> TRUE, val |-> IF signed /\ s[1] = "-" THEN 0 - tenths ELSE tenths]
       ELSE [ok |-> FALSE, val |-> 0]

\* text.replace('%', '')
RemovePercent(s) == SelectSeq(s, LAMBDA c : c # "%")
\* text.replace('.', '', 1)
RemoveFirstDot(s) ==
  LET dot == Find(s, <<".">>)
  IN IF dot = 0 THEN s ELSE SubSeq(s, 1, dot - 1) \o SubSeq(s, dot + 1, Len(s))

Regular == <<"R", "e", "g", "u", "l", "a", "r">>
\* The course code of a cell text: the part before "Regular", if present.
CodePart(text) ==
  IF Find(text, Regular) > 0 THEN strip(SubSeq(text, 1, Find(text, Regular) - 1)) ELSE text

\* The field a header names, "" for none: the elif chain over the lowered
\* header text.
FieldOf(header) ==
  LET h == lower(strip(header))
      has(sub) == Find(h, sub) > 0
  IN IF has(<<"c", "o", "u", "r", "s", "e", " ", "c", "o", "d", "e">>) THEN "course_code"
     ELSE IF has(<<"c", "o", "u", "r", "s", "e", " ", "t", "i", "t", "l", "e">>) \/ has(<<"c", "o", "u", "r", "s", "e", " ", "n", "a", "m", "e">>) THEN "course_title"
     ELSE IF has(<<"c", "a", "t", "e", "g", "o", "r", "y">>) THEN "category"
     ELSE IF has(<<"f", "a", "c", "u", "l", "t", "y">>) THEN "faculty"
     ELSE IF has(<<"s", "l", "o", "t">>) THEN "slot"
     ELSE IF has(<<"c", "o", "n", "d", "u", "c", "t", "e", "d">>) THEN "hours_conducted"
     ELSE IF has(<<"a", "b", "s", "e", "n", "t">>) THEN "hours_absent"
     ELSE IF has(<<"a", "t", "t", "n", " ", "%">>) \/ has(<<"a", "t", "t", "e", "n", "d", "a", "n", "c", "e">>) THEN "attendance_percentage"
     ELSE ""

\* col_map: field -> position of the last header that names it.
ColMap(hs) ==
  LET fields == {FieldOf(hs[i]) : i \in DOMAIN hs} \ {""}
  IN [f \in fields |->
        CHOOSE i \in DOMAIN hs :
          FieldOf(hs[i]) = f /\ \A j \in DOMAIN hs : FieldOf(hs[j]) = f => j <= i]

\* The record of a row on the direct path, for a row of at least 5 cells.
DirectRecord(row) ==
  LET cells == [k \in DOMAIN row |-> strip(row[k])]
      num(k, parsed) == IF Len(cells) >= k /\ parsed.ok THEN parsed.val ELSE 0
  IN [course_code |-> CodePart(cells[1]),
      course_title |-> cells[2],
      category |-> cells[3],
      faculty |-> cells[4],
      slot |-> cells[5],
      hours_conducted |-> IF Len(cells) > 5 THEN num(6, int(cells[6])) ELSE 0,
      hours_absent |-> IF Len(cells) > 6 THEN num(7, int(cells[7])) ELSE 0,
      attendance_percentage |->
        IF Len(cells) > 7 THEN num(8, float(RemovePercent(cells[8]))) ELSE 0]

\* The record of a row on the column-mapped path.
MappedRecord(row, col_map) ==
  LET cells == [k \in DOMAIN row |-> strip(row[k])]
      present(f) == f \in DOMAIN col_map /\ col_map[f] <= Len(cells)
      text(f) == IF present(f) THEN cells[col_map[f]] ELSE <<>>
      hours(f) == IF present(f) /\ isdigit(strip(text(f))) THEN int(text(f)).val ELSE 0
      attn_text == RemovePercent(text("attendance_percentage"))
  IN [course_code |-> IF present("course_code") THEN CodePart(text("course_code")) ELSE <<>>,
      course_title |-> text("course_title"),
      category |-> text("category"),
      faculty |-> text("faculty"),
      slot |-> text("slot"),
      hours_conducted |-> hours("hours_conducted"),
      hours_absent |-> hours("hours_absent"),
      attendance_percentage |->
        IF present("attendance_percentage") /\ isdigit(RemoveFirstDot(strip(attn_text)))
          THEN float(attn_text).val ELSE 0]

\* attendance_records after the loop over data_rows of one table.
RECURSIVE RowRecords(_, _)
RowRecords(rows, hs) ==
  IF rows = <<>> THEN <<>>
  ELSE LET col_map == ColMap(hs)
           row == Head(rows)
           rest == RowRecords(Tail(rows), hs)
       IN IF "course_code" \notin DOMAIN col_map \/ "course_title" \notin DOMAIN col_map
            THEN IF Len(row) < 5 THEN rest ELSE <<DirectRecord(row)>> \o rest
            ELSE LET record == MappedRecord(row, col_map)
                 IN IF record.course_code # <<>> /\ record.course_title # <<>>
                      THEN <<record>> \o rest ELSE rest

\* The deduplication of the parsed records: key and completeness over the
\* eight fields of a record (a number is never empty).
RowKey(r) == IF r.category # <<>> THEN <<r.course_code, r.category>> ELSE <<r.course_code>>
row_completeness(r) ==
  3 + Cardinality({f \in {"course_code", "course_title", "category", "faculty", "slot"} :
                     r[f] # <<>>})
RECURSIVE DedupRows(_, _)
DedupRows(recs, acc) ==
  IF recs = <<>> THEN acc
  ELSE LET r == Head(recs)
           at == {i \in DOMAIN acc : RowKey(acc[i]) = RowKey(r)}
       IN IF at = {}
            THEN DedupRows(Tail(recs), Append(acc, r))
            ELSE LET i == CHOOSE i \in at : TRUE
                 IN IF row_completeness(r) > row_completeness(acc[i])
                      THEN DedupRows(Tail(recs), [acc EXCEPT ![i] = r])
                      ELSE DedupRows(Tail(recs), acc)

\* The header row of the portal's table, and one that names neither the
\* course code nor the course title column.
PortalHeaders == << <<"C", "o", "u", "r", "s", "e", " ", "C", "o", "d", "e">>, <<"C", "o", "u", "r", "s", "e", " ", "T", "i", "t", "l", "e">>, <<"C", "a", "t", "e", "g", "o", "r", "y">>, <<"F", "a", "c", "u", "l", "t", "y", " ", "N", "a", "m", "e">>,
                    <<"S", "l", "o", "t">>, <<"H", "o", "u", "r", "s", " ", "C", "o", "n", "d", "u", "c", "t", "e", "d">>, <<"H", "o", "u", "r", "s", " ", "A", "b", "s", "e", "n", "t">>, <<"A", "t", "t", "n", " ", "%">> >>
PlainHeaders == << <<"C", "o", "d", "e">>, <<"T", "i", "t", "l", "e">>, <<"C", "a", "t", "e", "g", "o", "r", "y">>, <<"F", "a", "c", "u", "l", "t", "y">>,
                   <<"S", "l", "o", "t">>, <<"C", "o", "n", "d", "u", "c", "t", "e", "d">>, <<"A", "b", "s", "e", "n", "t">>, <<"A", "t", "t", "n", " ", "%">> >>
\* Cell texts of a data row.
CodeTexts == {<<"C", "1">>, <<"C", "2", " ", "R", "e", "g", "u", "l", "a", "r">>}
TitleTexts == {<<"T">>, <<>>}
NumberTexts == { << <<"1", "0">>, <<"2">>, <<"8", "0", "%">> >>, << <<"-", "3">>, <<"-", "1">>, <<"-", "5">> >>, << <<"x">>, <<>>, <<"n", "/", "a">> >>,
                 << <<"1", "0">>, <<"2">>, <<"1", "5", "0">> >>, << <<" ", "7", " ">>, <<"0">>, <<"9", ".", "5">> >> }
\* Rows of 8, 5 and 4 cells.
DataRows ==
  {<<c, ti, <<"T", "h", "e", "o", "r", "y">>, <<"F", "1">>, <<"A">>>> \o n : c \in CodeTexts, ti \in TitleTexts, n \in NumberTexts}
    \cup {<<c, ti, <<"T", "h", "e", "o", "r", "y">>, <<"F", "1">>, <<"A">>>> : c \in CodeTexts, ti \in TitleTexts}
    \cup {<<c, ti, <<"T", "h", "e", "o", "r", "y">>, <<"F", "1">>>> : c \in CodeTexts, ti \in TitleTexts}
RowLists == UNION {[1..n -> DataRows] : n \in 1..MaxRows}

ParseInit ==
  /\ a_pc = "table"
  /\ headers \in {PortalHeaders, PlainHeaders}
  /\ data_rows \in RowLists
  /\ att_records = <<>>

\* The row loop and the deduplication that follows it.
ParseRows ==
  /\ a_pc = "table"
  /\ att_records' = DedupRows(RowRecords(data_rows, headers), <<>>)
  /\ a_pc' = "parsed"
  /\ UNCHANGED <<headers, data_rows>>
  /\ UNCHANGED <<oldVars, mergeVars, batchVars, pageVars, titleVars, regVars, raceVars, userVars>>

InitParse == OldIdle /\ MergeIdle /\ BatchIdle /\ ParseInit /\ PageIdle /\ TitleIdle /\ RegIdle /\ RaceIdle /\ UserIdle
NextParse == ParseRows
SpecParse == InitParse /\ [][NextParse]_vars

\* ------------------------------------------------------------------------
\* get_attendance_page: navigation, the fixed sleep, the wait for the marks
\* text, the fallback wait for the table, and the read of page_source.

initial_wait == 22
max_additional_wait == 15
table_wait == 5

\* What the browser can show, in the order the page builds up.
Documents == <<"blank", "table", "full">>
Stage(d) == CHOOSE i \in DOMAIN Documents : Documents[i] = d
\* The documents the page can have reached later on.
Later(d) == {Documents[i] : i \in Stage(d)..Len(Documents)}

\* Variant: an exception of a wait leaves the function.
WaitFailure_Propagates(stage) == "raise"

\* "except Exception" around each wait: the failure of the marker wait
\* leads to the table wait, the failure of the table wait to the read.
WaitFailure(stage) == IF stage = "marker" THEN "table" ELSE "source"

PageInit ==
  /\ g_pc = "ensure" /\ g_login = "none"
  /\ rendered \in {"blank", "table", "full"}
  /\ waited = 0 /\ g_waits = <<>> /\ driver_raised = FALSE /\ html_source = "running"

\* "if not self.ensure_login(): return None"
PageEnsureLogin ==
  /\ g_pc = "ensure"
  /\ \E ok \in BOOLEAN :
       /\ g_login' = IF ok THEN "true" ELSE "false"
       /\ IF ok THEN g_pc' = "get" /\ UNCHANGED html_source
                ELSE g_pc' = "done" /\ html_source' = "None"
  /\ UNCHANGED <<rendered, waited, g_waits, driver_raised>>
  /\ UNCHANGED <<oldVars, mergeVars, batchVars, parseVars, titleVars, regVars, raceVars, userVars>>

\* driver.get(ATTENDANCE_PAGE_URL), which may raise, and the initial sleep.
PageGet ==
  /\ g_pc = "get"
  /\ \/ /\ driver_raised' = TRUE /\ html_source' = "raise" /\ g_pc' = "done"
        /\ UNCHANGED <<rendered, waited>>
     \/ /\ rendered' \in {"blank", "table", "full"}
        /\ waited' = waited + initial_wait
        /\ g_pc' = "marker"
        /\ UNCHANGED <<driver_raised, html_source>>
  /\ UNCHANGED <<g_login, g_waits>>
  /\ UNCHANGED <<oldVars, mergeVars, batchVars, parseVars, titleVars, regVars, raceVars, userVars>>

\* A WebDriverWait of at most limit seconds for a document of at least the
\* stage want; the page may build up meanwhile.  The wait ends early when
\* the condition holds, with TimeoutException at the limit, or with another
\* exception at any moment.
Wait(stage, want, limit) ==
  /\ g_pc = stage
  /\ \E d \in Later(rendered), spent \in 0..limit, o \in {"found", "timeout", "error"} :
       /\ o = "found" => Stage(d) >= Stage(want)
       /\ o = "timeout" => (spent = limit /\ Stage(d) < Stage(want))
       /\ rendered' = d
       /\ waited' = waited + spent
       /\ g_waits' = Append(g_waits, <<stage, o>>)
       /\ IF o = "found" THEN g_pc' = "source" /\ UNCHANGED <<html_source>>
          ELSE IF WaitFailure(stage) = "raise"
            THEN g_pc' = "done" /\ html_source' = "raise"
            ELSE g_pc' = WaitFailure(stage) /\ UNCHANGED <<html_source>>
  /\ UNCHANGED <<g_login, driver_raised>>
  /\ UNCHANGED <<oldVars, mergeVars, batchVars, parseVars, titleVars, regVars, raceVars, userVars>>

MarkerWait == Wait("marker", "full", max_additional_wait)
TableWait == Wait("table", "table", table_wait)

\* "html_source = self.driver.page_source; return html_source"
PageSource ==
  /\ g_pc = "source"
  /\ \/ /\ driver_raised' = TRUE /\ html_source' = "raise"
     \/ /\ html_source' = rendered /\ UNCHANGED driver_raised
  /\ g_pc' = "done"
  /\ UNCHANGED <<g_login, rendered, waited, g_waits>>
  /\ UNCHANGED <<oldVars, mergeVars, batchVars, parseVars, titleVars, regVars, raceVars, userVars>>

InitPage == OldIdle /\ MergeIdle /\ BatchIdle /\ ParseIdle /\ PageInit /\ TitleIdle /\ RegIdle /\ RaceIdle /\ UserIdle
NextPage == PageEnsureLogin \/ PageGet \/ MarkerWait \/ TableWait \/ PageSource
SpecPage == InitPage /\ [][NextPage]_vars

\* ------------------------------------------------------------------------
\* get_course_title: the title of the attendance record that matches a
\* course code of the marks table.

\* text.replace("Regular", ""): every occurrence removed, left to right.
RECURSIVE RemoveRegular(_)
RemoveRegular(s) ==
  LET at == Find(s, Regular)
  IN IF at = 0 THEN s
     ELSE SubSeq(s, 1, at - 1) \o RemoveRegular(SubSeq(s, at + Len(Regular), Len(s)))

\* stored_code.lower() == course_code.lower()
ExactMatch(stored_code, code) == lower(stored_code) = lower(code)
\* The comparison after "Regular" is removed from both codes.
StrippedMatch(stored_code, code) ==
  lower(strip(RemoveRegular(stored_code))) = lower(strip(RemoveRegular(code)))

\* The loop over attendance_records: the first record that matches either
\* way gives the title; the course code itself when there is none.
RECURSIVE get_course_title(_, _)
get_course_title(code, records) ==
  IF records = <<>> THEN code
  ELSE LET stored_code == strip(Head(records).course_code)
       IN IF ExactMatch(stored_code, code) \/ StrippedMatch(stored_code, code)
            THEN Head(records).course_title
            ELSE get_course_title(code, Tail(records))

\* Course codes as the two tables write them, and records titled by their
\* place in the list.
MarksCodes == {<<"C", "1">>, <<"c", "1">>, <<"C", "1", " ", "R", "e", "g", "u", "l", "a", "r">>, <<"C", "1", "R", "e", "g", "u", "l", "a", "r">>, <<"C", "2">>}
TitleOf(i) == <<"T", DigitSeq[i + 1]>>
TitleRecordLists ==
  UNION {{[i \in 1..n |-> [course_code |-> codes[i], course_title |-> TitleOf(i)]] :
            codes \in [1..n -> MarksCodes]} : n \in 0..MaxRecords}

TitleInit ==
  /\ t_pc = "call"
  /\ marks_code \in MarksCodes
  /\ title_records \in TitleRecordLists
  /\ title_result = <<>>

GetCourseTitle ==
  /\ t_pc = "call"
  /\ title_result' = get_course_title(marks_code, title_records)
  /\ t_pc' = "done"
  /\ UNCHANGED <<marks_code, title_records>>
  /\ UNCHANGED <<oldVars, mergeVars, batchVars, parseVars, pageVars, regVars, raceVars, userVars>>

InitTitle == OldIdle /\ MergeIdle /\ BatchIdle /\ ParseIdle /\ PageIdle /\ TitleInit /\ RegIdle /\ RaceIdle /\ UserIdle
NextTitle == GetCourseTitle
SpecTitle == InitTitle /\ [][NextTitle]_vars

\* ------------------------------------------------------------------------
\* extract_registration_number_robust: the four strategies in order, then
\* the fallback.

\* What a strategy gives: it raises, finds nothing, or finds a number.
StrategyResults == {[raised |-> TRUE, value |-> <<>>], [raised |-> FALSE, value |-> <<>>],
                    [raised |-> FALSE, value |-> <<"R", "A", "1">>], [raised |-> FALSE, value |-> <<"R", "A", "2">>]}
Emails == {<<"a", "b", "@", "s", "r", "m", "i", "s", "t", ".", "e", "d", "u", ".", "i", "n">>, <<"a", "b">>}
NumStrategies == 4

\* self.email.split('@')[0] if '@' in self.email else self.email
EmailIdentifier(e) == IF "@" \in Chars(e) THEN split(e, "@")[1] ELSE e

RegInit ==
  /\ r_pc = "strategies"
  /\ email \in Emails
  /\ strategy_results \in [1..NumStrategies -> StrategyResults]
  /\ strategy_i = 1
  /\ reg_result = <<>>

\* One iteration of "for i, strategy in enumerate(strategies)".
TryStrategy ==
  /\ r_pc = "strategies"
  /\ LET result == strategy_results[strategy_i]
     IN IF ~result.raised /\ result.value # <<>>
          THEN /\ reg_result' = result.value /\ r_pc' = "done"
               /\ UNCHANGED strategy_i
          ELSE /\ IF strategy_i < NumStrategies
                    THEN strategy_i' = strategy_i + 1 /\ UNCHANGED r_pc
                    ELSE r_pc' = "fallback" /\ UNCHANGED strategy_i
               /\ UNCHANGED reg_result
  /\ UNCHANGED <<email, strategy_results>>
  /\ UNCHANGED <<oldVars, mergeVars, batchVars, parseVars, pageVars, titleVars, raceVars, userVars>>

\* "Last resort: try to use email as identifier".
RegFallback ==
  /\ r_pc = "fallback"
  /\ reg_result' = EmailIdentifier(email)
  /\ r_pc' = "done"
  /\ UNCHANGED <<email, strategy_results, strategy_i>>
  /\ UNCHANGED <<oldVars, mergeVars, batchVars, parseVars, pageVars, titleVars, raceVars, userVars>>

InitReg == OldIdle /\ MergeIdle /\ BatchIdle /\ ParseIdle /\ PageIdle /\ TitleIdle /\ RegInit /\ RaceIdle /\ UserIdle
NextReg == TryStrategy \/ RegFallback
SpecReg == InitReg /\ [][NextReg]_vars

\* ------------------------------------------------------------------------
\* Two scrapes of the same owner, each in upsert_attendance_data, over the
\* rows of that owner in table "attendance".  Every request to the store is
\* one step; the steps of the two runs interleave freely.

Runs == {1, 2}
\* attendance_json of a run: registration number and records, both of that
\* run; 0 marks the snapshot of an earlier scrape.
SnapshotOf(r) == [registration_number |-> r, records |-> r]

RaceInit ==
  /\ c_pc = <<"select", "select">>
  /\ c_exists = <<FALSE, FALSE>>
  /\ c_stored = <<FALSE, FALSE>>
  /\ c_rows \in {<<>>, <<SnapshotOf(0)>>}

\* select("id").eq("user_id", user_id); a raising select counts as no row.
RaceSelect(r) ==
  /\ c_pc[r] = "select"
  /\ \E o \in {"ok", "raise"} :
       /\ c_exists' = [c_exists EXCEPT ![r] = (o = "ok" /\ Len(c_rows) > 0)]
       /\ c_pc' = [c_pc EXCEPT ![r] = IF c_exists'[r] THEN "update" ELSE "insert"]
  /\ UNCHANGED <<c_stored, c_rows>>
  /\ UNCHANGED <<oldVars, mergeVars, batchVars, parseVars, pageVars, titleVars, regVars, userVars>>

\* update({"attendance_data": attendance_json, ...}).eq("user_id", user_id):
\* one statement that replaces the column in every row of the owner.
RaceUpdate(r) ==
  /\ c_pc[r] = "update"
  /\ \E o \in {"data", "empty", "raise"} :
       \/ /\ o = "data" /\ Len(c_rows) > 0
          /\ c_rows' = [i \in DOMAIN c_rows |-> SnapshotOf(r)]
          /\ c_stored' = [c_stored EXCEPT ![r] = TRUE]
          /\ c_pc' = [c_pc EXCEPT ![r] = "done"]
       \/ /\ o = "empty"
          /\ c_pc' = [c_pc EXCEPT ![r] = "insert"]
          /\ UNCHANGED <<c_rows, c_stored>>
       \/ /\ o = "raise"
          /\ c_pc' = [c_pc EXCEPT ![r] = "handler"]
          /\ UNCHANGED <<c_rows, c_stored>>
  /\ UNCHANGED c_exists
  /\ UNCHANGED <<oldVars, mergeVars, batchVars, parseVars, pageVars, titleVars, regVars, userVars>>

\* insert({"user_id": user_id, "attendance_data": attendance_json, ...}):
\* a new row.
Inserted(rows, snapshot) == Append(rows, snapshot)

RaceInsert(r) ==
  /\ c_pc[r] = "insert"
  /\ \E o \in {"data", "empty", "raise"} :
       \/ /\ o = "data"
          /\ c_rows' = Inserted(c_rows, SnapshotOf(r))
          /\ c_stored' = [c_stored EXCEPT ![r] = TRUE]
          /\ c_pc' = [c_pc EXCEPT ![r] = "done"]
       \/ /\ o = "empty"
          /\ c_pc' = [c_pc EXCEPT ![r] = "done"]
          /\ UNCHANGED <<c_rows, c_stored>>
       \/ /\ o = "raise"
          /\ c_pc' = [c_pc EXCEPT ![r] = "handler"]
          /\ UNCHANGED <<c_rows, c_stored>>
  /\ UNCHANGED c_exists
  /\ UNCHANGED <<oldVars, mergeVars, batchVars, parseVars, pageVars, titleVars, regVars, userVars>>

\* The handler of the first attempt: it sleeps and the function returns
\* False on the "return False" inside the loop body.
RaceHandler(r) ==
  /\ c_pc[r] = "handler"
  /\ c_pc' = [c_pc EXCEPT ![r] = "done"]
  /\ UNCHANGED <<c_exists, c_stored, c_rows>>
  /\ UNCHANGED <<oldVars, mergeVars, batchVars, parseVars, pageVars, titleVars, regVars, userVars>>

InitRace == OldIdle /\ MergeIdle /\ BatchIdle /\ ParseIdle /\ PageIdle /\ TitleIdle
            /\ RegIdle /\ RaceInit /\ UserIdle
NextRace ==
  \E r \in Runs : RaceSelect(r) \/ RaceUpdate(r) \/ RaceInsert(r) \/ RaceHandler(r)
SpecRace == InitRace /\ [][NextRace]_vars

\* ------------------------------------------------------------------------
\* get_user_id_robust: the lookup by email, the lookup by registration
\* number and the insert of a new user.

\* Everything but the user lookup, among the parts added after the slot map.
notUser == <<oldVars, mergeVars, batchVars, parseVars, pageVars, titleVars, regVars, raceVars>>

UserInit ==
  /\ y_pc = "email" /\ y_attempt = 0
  /\ registration_number \in {"", "RA1"}
  /\ y_trace = <<>> /\ y_result = "none"

\* What follows one round of the loop without a return: the next round, or
\* the insert after the last one.
NextRound ==
  IF y_attempt + 1 < max_attempts
    THEN y_pc' = "email" /\ y_attempt' = y_attempt + 1
    ELSE y_pc' = "insert" /\ UNCHANGED y_attempt

\* The try block of a round: select by email.
\* o = "found": a row; its registration number is updated when it differs
\*              (a failing update is caught) and the id is returned.
\* o = "none":  no row, the try block ends.
\* o = "raise": the handler runs; it names "metrics", which is not defined
\*              in this function, so NameError leaves the function.
UserEmailLookup ==
  /\ y_pc = "email"
  /\ \E o \in {"found", "none", "raise"}, stored \in {"", "RA1", "RA2"}, upd \in {"ok", "raise"} :
       /\ o # "found" => (stored = "" /\ upd = "ok")
       /\ (o = "found" /\ (registration_number = "" \/ stored = registration_number))
            => upd = "ok"
       /\ y_trace' = Append(y_trace, <<"email", o, stored, upd>>)
       /\ CASE o = "found" -> /\ y_result' = "by_email" /\ y_pc' = "done"
                              /\ UNCHANGED y_attempt
            [] o = "raise" -> /\ y_result' = "raise" /\ y_pc' = "done"
                              /\ UNCHANGED y_attempt
            [] OTHER -> /\ UNCHANGED y_result
                        /\ IF registration_number # ""
                             THEN y_pc' = "reg" /\ UNCHANGED y_attempt
                             ELSE NextRound
  /\ UNCHANGED registration_number
  /\ UNCHANGED notUser

\* "if registration_number:": select by registration number.
\* o = "found": the email of the row is updated (a failing update is
\*              caught) and the id is returned.
\* o = "none", "raise": the round ends; the exception is caught.
UserRegLookup ==
  /\ y_pc = "reg"
  /\ \E o \in {"found", "none", "raise"}, upd \in {"ok", "raise"} :
       /\ o # "found" => upd = "ok"
       /\ y_trace' = Append(y_trace, <<"reg", o, "", upd>>)
       /\ IF o = "found"
            THEN y_result' = "by_reg" /\ y_pc' = "done" /\ UNCHANGED y_attempt
            ELSE UNCHANGED y_result /\ NextRound
  /\ UNCHANGED registration_number
  /\ UNCHANGED notUser

\* After the loop: insert of a new user.
\* o = "data":  the id of the new row is returned.
\* o = "empty": raise Exception("Insert returned no data").
\* o = "raise": the exception of the insert leaves the function.
UserInsert ==
  /\ y_pc = "insert"
  /\ \E o \in {"data", "empty", "raise"} :
       /\ y_trace' = Append(y_trace, <<"insert", o, "", "ok">>)
       /\ y_result' = IF o = "data" THEN "new" ELSE "raise"
  /\ y_pc' = "done"
  /\ UNCHANGED <<y_attempt, registration_number>>
  /\ UNCHANGED notUser

InitUser == OldIdle /\ MergeIdle /\ BatchIdle /\ ParseIdle /\ PageIdle /\ TitleIdle
            /\ RegIdle /\ RaceIdle /\ UserInit
NextUser == UserEmailLookup \/ UserRegLookup \/ UserInsert
SpecUser == InitUser /\ [][NextUser]_vars

\* ========================================================================
\* Properties

\* C1: on every exit of run_attendance_scraper, run_timetable_scraper and
\* run_unified_scraper after setup_driver succeeded, quit() has been called
\* on the browser handle that setup_driver returned.
C1_HandleQuitOnEveryExit ==
  (pc = "run_ret" /\ runHandle # NoHandle) => runHandle \in quitSet

\* C2: login() returns True only after the identifier and the password were
\* entered and the form was submitted in the same attempt.
C2_VerifiedOnlyAfterSubmit ==
  (pc = "ensure_ret" /\ ~elEntryLogged /\ elResult = "true")
    => (emailEntered /\ passwordEntered /\ submitted)

C4_CookieSessionProbedOnItsHandle ==
  (entry = "bg" /\ cookies /\ pc = "ensure_ret" /\ elEntryLogged /\ elResult = "true")
    => (driver \in cookieJar /\ elBrowser)

\* C5: with a browser in which the credential frame is found on the third
\* attempt only, a login flow that ends without raising ends in Verified
\* within the budget of three attempts.
C5_FrameRetryReachesVerified ==
  (pc = "ensure_ret" /\ ~elEntryLogged /\ elResult # "raise")
    => (elResult = "true" /\ loginAttemptsCall <= LoginAttempts)

\* C6 (as stated): one scrape request executes the full login flow at most
\* 3 times in total.
C6_ThreeLoginAttemptsPerRequest == loginAttemptsReq <= LoginAttempts

\* Full login attempts one request can make: 3 per login() call, one call
\* per run of the attendance and unified scrapers and up to 3 per run of the
\* timetable scraper, one run per background job and up to 3 per run_scraper.
LoginAttemptCap ==
  LoginAttempts
    * (IF stype = "timetable" THEN max_login_attempts ELSE 1)
    * (IF entry = "cli" THEN max_retries + 1 ELSE 1)

\* C6 (amended): one call of login() executes the full flow at most 3 times
\* and returns False exactly after its third failed attempt; a run calls
\* login() at most once (attendance, unified) or 3 times (timetable), so a
\* request makes at most LoginAttemptCap full attempts.
C6_LoginAttemptsBounded ==
  /\ loginAttemptsCall <= LoginAttempts
  /\ loginCallsRun <= (IF stype = "timetable" THEN max_login_attempts ELSE 1)
  /\ loginAttemptsReq <= LoginAttemptCap
  /\ (pc = "ensure_ret" /\ ~elEntryLogged /\ elResult = "false")
       => loginAttemptsCall = LoginAttempts

C6_Witness ==
  /\ pc = "ensure_ret" /\ elResult = "false"
  /\ loginAttemptsCall = LoginAttempts
  /\ loginAttemptsReq > LoginAttempts

\* C7: the attendance or timetable page is navigated to, data is extracted
\* or persisted only after ensure_login returned True in the same run; a run
\* that ends because login failed returns status error and has navigated,
\* extracted and persisted nothing.
C7_NoScrapeWithoutLogin ==
  /\ (navigated \/ extracted \/ persisted) => ensureTrue
  /\ (pc = "run_ret" /\ exitPath = "login_failed")
       => (runResult = "error" /\ ~navigated /\ ~extracted /\ ~persisted)

C7_Witness ==
  pc = "run_ret" /\ exitPath = "login_failed" /\ loginAttemptsCall = LoginAttempts

\* C8: when login() returns True on the path where cookie extraction
\* succeeded, a token has been minted and a write to the store attempted.
C8_TokenPersistedOnVerified ==
  (pc = "ensure_ret" /\ ~elEntryLogged /\ elResult = "true" /\ cookies_extracted)
    => (tokensMinted >= 1 /\ storeWrites >= 1)

\* C9: upsert_attendance_data retries a failed store operation up to 3
\* times, writes the backup file only after the last attempt failed, returns
\* True iff a store write or the backup write succeeded, and returns False
\* only when all 3 attempts and the backup write failed.
C9_RetryThenBackup ==
  u_pc = "done" =>
    /\ (u_result = "false"
          => (u_attemptsMade = max_attempts /\ u_backupTried /\ ~u_backupWritten))
    /\ (u_backupTried => u_attemptsMade = max_attempts)
    /\ (u_result = "true" <=> (u_storeOk \/ u_backupWritten))

\* C10: every job record receives exactly one terminal status, and a record
\* that holds a terminal status never changes status again.
C10_TerminalWrittenOnce ==
  /\ \A j \in JobIds : termWrites[j] <= 1
  /\ ~regressed

\* C11: the job_id an endpoint returns is the key under which the worker it
\* started records the job in active_jobs.
C11_ResponseKeyIsWorkerKey ==
  \A w \in Workers : (r_job[w] # <<>> /\ w_job[w] # <<>>) => r_job[w] = w_job[w]

\* C12: a background job whose record says running eventually gets a
\* terminal status (completed or error), and the job never ends with its
\* record still saying running.
C12_JobReachesTerminalStatus ==
  /\ [](((entry = "bg" /\ pc = "done") => jobStatus \in {"completed", "error"}))
  /\ ((entry = "bg" /\ jobStatus = "running") ~> (jobStatus \in {"completed", "error"}))

C12_Witness ==
  entry = "bg" /\ pc = "done" /\ runResult = "raised" /\ jobStatus = "error"

C14_DriverInitFailureIsFinal ==
  /\ ~(suExhausted /\ pc = "setup")
  /\ ((entry = "bg" /\ pc = "done" /\ suExhausted) => jobStatus = "error")

\* C15: run_attendance_scraper, run_timetable_scraper and
\* run_unified_scraper always return a result and never raise.
C15_RunNeverRaises ==
  pc = "run_ret" => runResult \in {"success", "partial_success", "error"}

\* Number of entries of the run's log for one kind of event, and whether
\* some entry of that kind precedes position i.
LogCount(what) == Cardinality({i \in DOMAIN runLog : runLog[i][1] = what})
LoggedBefore(what, i) == \E j \in 1..(i - 1) : runLog[j][1] = what

\* C16 (as stated): when run_unified_scraper navigates to the timetable
\* page, setup_driver and login() have each been called exactly once in the
\* run.
C16_SetupAndLoginExactlyOnce ==
  (stype = "unified" /\ LogCount("nav_timetable") > 0)
    => (LogCount("setup_driver") = 1 /\ LogCount("login") = 1)

\* C16 (amended): a run of run_unified_scraper calls setup_driver once and
\* login() at most once (exactly once in a background job without cookies,
\* never when is_logged_in was already set); every navigation to the
\* timetable page comes after the attendance block has ended and uses the
\* handle setup_driver returned, the same one the attendance page was
\* loaded on.
C16_UnifiedSingleSession ==
  stype = "unified" =>
    /\ LogCount("setup_driver") <= 1
    /\ LogCount("login") <= 1
    /\ \A i \in DOMAIN runLog :
         runLog[i][1] = "nav_timetable" =>
           /\ LogCount("setup_driver") = 1
           /\ LoggedBefore("attendance_done", i)
           /\ runHandle # NoHandle /\ runLog[i][2] = runHandle
           /\ ((entry = "bg" /\ ~cookies) => LogCount("login") = 1)
           /\ ((entry = "bg" /\ cookies) => LogCount("login") = 0)
           /\ \A j \in DOMAIN runLog :
                runLog[j][1] \in {"nav_attendance", "attendance_done"}
                  => (j < i /\ runLog[j][2] = runLog[i][2])

C16_Witness ==
  /\ stype = "unified" /\ pc = "run_ret"
  /\ LogCount("login") = 1 /\ LogCount("nav_attendance") = 1
  /\ LogCount("nav_timetable") = 2

\* C17: a run of run_unified_scraper whose login succeeded attempts the
\* timetable whatever the attendance block did (an exception included);
\* the attendance and marks statuses recorded when the attendance block
\* ended are still those of the result; each artifact has its own status and
\* a mixed outcome is reported as partial_success.
C17_TimetableIndependentOfAttendance ==
  (stype = "unified" /\ pc = "run_ret" /\ ensureTrue) =>
    /\ LogCount("nav_timetable") > 0
    /\ ttStatus \in {"success", "error"}
    /\ attSnapshot = <<attStatus, marksStatus>>
    /\ ((attStatus = "success" /\ ttStatus = "error") => runResult = "partial_success")
    /\ ((attStatus = "error" /\ ttStatus = "success") => runResult = "partial_success")

C17_Witness ==
  /\ stype = "unified" /\ pc = "run_ret" /\ ensureTrue
  /\ attStatus = "error" /\ marksStatus = "error" /\ ttStatus = "success"
  /\ runResult = "partial_success"

\* C18: the deduplicated list holds exactly one record for each
\* (course_code, category) pair of the parsed list, namely the first of the
\* records of that pair with the maximum number of non-empty fields.
C18_DedupKeepsMostComplete ==
  d_pc # "deduplicated" \/
  LET in == attendance_records
      out == deduplicated_records
      SameKey(a, b) == a.course_code = b.course_code /\ a.category = b.category
      NonEmpty(r) == Cardinality({f \in {"course_code", "category", "faculty"} : r[f] # ""})
      Group(r) == {i \in DOMAIN in : SameKey(in[i], r)}
      Best(r) == {i \in Group(r) : \A k \in Group(r) : NonEmpty(in[i]) >= NonEmpty(in[k])}
      First(r) == CHOOSE i \in Best(r) : \A k \in Best(r) : i <= k
  IN /\ \A i, j \in DOMAIN out : SameKey(out[i], out[j]) => i = j
     /\ \A i \in DOMAIN in : \E j \in DOMAIN out : SameKey(in[i], out[j])
     /\ \A j \in DOMAIN out : Group(out[j]) # {} /\ out[j] = in[First(out[j])]

C18_Witness ==
  /\ d_pc = "deduplicated"
  /\ Len(attendance_records) = 3 /\ Len(deduplicated_records) = 1
  /\ attendance_records[1].faculty = "F1" /\ attendance_records[2].faculty = "F2"
  /\ attendance_records[3].faculty = ""
  /\ deduplicated_records[1] = attendance_records[1]

\* C19: the deduplication step applied to a deduplicated list returns the
\* same list, the same records in the same order.
C19_DedupIdempotent ==
  d_pc = "again" => deduplicated_again = deduplicated_records

C19_Witness ==
  /\ d_pc = "again"
  /\ Len(attendance_records) = 3 /\ Len(deduplicated_records) = 2
  /\ deduplicated_again = deduplicated_records

\* C20: for a lab slot of several periods, written P<n>-P<m>-...- or
\* P<n>-<m>-...-, the slot map gets, besides the slot text itself, exactly
\* the keys P<n>-, one for each period, all mapped to the slot's course.
C20_LabSlotFormsAgree ==
  s_pc = "mapped" =>
    /\ (DOMAIN enhanced_mapping) \ {slot}
         = {<<"P">> \o slot_periods[i] \o <<"-">> : i \in DOMAIN slot_periods}
    /\ \A k \in DOMAIN enhanced_mapping : enhanced_mapping[k] = slot_course

C20_Witness ==
  /\ s_pc = "mapped" /\ slot_form = "P-n"
  /\ slot = <<"P", "3", "7", "-", "3", "8", "-", "3", "9", "-">>
  /\ DOMAIN enhanced_mapping
       = {slot, <<"P", "3", "7", "-">>, <<"P", "3", "8", "-">>, <<"P", "3", "9", "-">>}

\* The codes the claims call break codes: empty, "-", "break" in any letter
\* case, "X".
BreakLike(code) ==
  \/ code = <<>> \/ code = <<"-">> \/ code = <<"X">>
  \/ lower(code) = <<"b", "r", "e", "a", "k">>

C22_UnresolvedCodePassesThrough ==
  (m_pc = "merged" /\ course_data = <<>>) =>
    \A t \in DOMAIN official_tt :
      (~BreakLike(official_tt[t]) /\ strip(official_tt[t]) # <<>>)
        => merged_tt[t].display = official_tt[t]

\* A cell "A/X" whose first part is a key of the slot map and whose part "X"
\* is not.
HalfResolved(t) ==
  LET parts == split(official_tt[t], "/")
      m == EnhancedMapping(course_data)
  IN /\ Len(parts) = 2 /\ parts[2] = <<"X">>
     /\ parts[1] \in DOMAIN m /\ <<"X">> \notin DOMAIN m

\* C24: for a canonical cell A/X where A is a key of the slot map and X is
\* not, the merged cell's courses list has exactly one entry, the course of
\* A, and its display text is that course's title followed by the time slot
\* in parentheses, without X.
C24_SlashCellShowsResolvedPartOnly ==
  m_pc = "merged" =>
    \A t \in DOMAIN official_tt :
      HalfResolved(t) =>
        LET c == EnhancedMapping(course_data)[split(official_tt[t], "/")[1]]
        IN /\ merged_tt[t].courses = <<c>>
           /\ merged_tt[t].display = c.title \o <<" ", "(">> \o slot_times[t] \o <<")">>
           /\ "X" \notin Chars(merged_tt[t].display)
C24_Witness ==
  /\ m_pc = "merged"
  /\ \E t \in DOMAIN official_tt : HalfResolved(t) /\ Len(merged_tt[t].courses) = 1

\* C25: when the batch can be parsed neither from the page (or its URL) nor
\* from the profile, the timetable scrape reports an error status for the
\* timetable and merges against no batch.
C25_NoAssumedBatch ==
  (/\ b_pc = "done"
   /\ page_batch = "none" /\ profile_batch = "none"
   /\ (b_caller = "timetable" => url_batch = "none"))
    => (tt_status = "error" /\ student_batch = "none")

\* C23: a table yields records only for data rows with the 8 expected
\* cells: every record carries the course code of an 8-cell row and there
\* are no more records than 8-cell rows (one 8-cell row and one 5-cell row
\* yield one record).
C23_ShortRowsSkipped ==
  a_pc = "parsed" =>
    /\ Len(att_records) <= Cardinality({i \in DOMAIN data_rows : Len(data_rows[i]) = 8})
    /\ \A k \in DOMAIN att_records :
         \E i \in DOMAIN data_rows :
           Len(data_rows[i]) = 8 /\ att_records[k].course_code = CodePart(data_rows[i][1])

\* C28: every record has hours_conducted >= 0, hours_absent >= 0 and an
\* attendance_percentage between 0 and 100 (kept in tenths), whatever the
\* cell texts, on the column-mapped and on the direct path.
C28_NumericFieldsInRange ==
  a_pc = "parsed" =>
    \A k \in DOMAIN att_records :
      /\ att_records[k].hours_conducted >= 0
      /\ att_records[k].hours_absent >= 0
      /\ att_records[k].attendance_percentage >= 0
      /\ att_records[k].attendance_percentage <= 1000

\* C26: once ensure_login returned True, get_attendance_page makes at most
\* the two waits after the fixed sleep, within 42 seconds in all, and
\* returns the document then rendered, whether the marker wait succeeds,
\* fails and the table wait succeeds, or both fail; it returns None never
\* and raises only when driver.get or the page_source read raised, never
\* because of a wait.
C26_WaitTimeoutsStillReturnHtml ==
  /\ waited <= initial_wait + max_additional_wait + table_wait
  /\ Len(g_waits) <= 2
  /\ (g_pc = "done" /\ g_login = "true") =>
       /\ html_source # "None"
       /\ (html_source = "raise") = driver_raised
       /\ ~driver_raised => html_source = rendered
C26_Witness ==
  /\ g_pc = "done" /\ g_login = "true"
  /\ g_waits = << <<"marker", "timeout">>, <<"table", "timeout">> >>
  /\ html_source = rendered

\* C27: when some attendance record matches the marks code exactly (letter
\* case aside), get_course_title returns the title of the first such record,
\* even when an earlier record matches only after "Regular" is stripped.
C27_ExactMatchHasPrecedence ==
  t_pc = "done" =>
    LET exact == {i \in DOMAIN title_records :
                    ExactMatch(strip(title_records[i].course_code), marks_code)}
    IN exact # {} =>
         \E i \in exact :
           /\ \A j \in exact : i <= j
           /\ title_result = title_records[i].course_title

\* C29: when none of the four strategies finds a registration number, the
\* result is the explicit not-found value, and a value that is returned is
\* one that some strategy found.
C29_NotFoundIsExplicit ==
  r_pc = "done" =>
    \/ reg_result = <<>>
    \/ \E i \in 1..NumStrategies :
         ~strategy_results[i].raised /\ strategy_results[i].value = reg_result

\* C30: after any interleaving of two scrapes of one owner, the store holds
\* at most one row for the owner, and when a run stored its snapshot the
\* row is the complete snapshot of one of the two runs.
C30_OneCompleteSnapshotPerOwner ==
  (\A r \in Runs : c_pc[r] = "done") =>
    /\ Len(c_rows) <= 1
    /\ (\E r \in Runs : c_stored[r]) =>
         \A i \in DOMAIN c_rows : c_rows[i] \in {SnapshotOf(r) : r \in Runs}

\* C36: no merged cell lists the same course more than once in its courses
\* list, whatever the course list.
C36_NoCourseListedTwice ==
  m_pc = "merged" =>
    \A t \in DOMAIN official_tt :
      \A i, j \in DOMAIN merged_tt[t].courses :
        merged_tt[t].courses[i].code = merged_tt[t].courses[j].code => i = j

\* C33: when the lookup by email raises or finds no row, get_user_id_robust
\* raises nothing: it returns the id of a row found by a later lookup (by
\* email within 3 attempts, or by registration number) or of the user it
\* inserted.
C33_LookupFailureNotPropagated ==
  (/\ y_pc = "done"
   /\ y_trace # <<>> /\ y_trace[1][2] \in {"none", "raise"})
    => /\ y_result \in {"by_email", "by_reg", "new"}
       /\ Cardinality({i \in DOMAIN y_trace : y_trace[i][1] = "email"}) <= max_attempts

\* C35: when run_unified_scraper returns after a successful login, the
\* overall status is success exactly when the attendance, marks and timetable
\* statuses are all success, partial_success only when at least one of them
\* is success, and error whenever none of them is success.
C35_OverallStatusFromArtifacts ==
  (stype = "unified" /\ pc = "run_ret" /\ ensureTrue /\ exitPath = "normal") =>
    LET st == {attStatus, marksStatus, ttStatus} IN
      /\ (runResult = "success" <=> st = {"success"})
      /\ (runResult = "partial_success" => "success" \in st)
      /\ ("success" \notin st => runResult = "error")

\* C34: two scrape jobs that are running at the same time never use the same
\* active_jobs record, two requests for the same owner and artifact within
\* one second included.
C34_ConcurrentJobsHaveOwnRecords ==
  \A v, w \in Workers :
    (/\ v # w
     /\ w_pc[v] \in {"named", "running"}
     /\ w_pc[w] \in {"named", "running"}) => w_job[v] # w_job[w]

\* C31: in a background job started with cookies at most one browser handle
\* is live (created and not yet quit) at any time, so no setup_driver call
\* replaces a handle that is still live, and every handle created for the job
\* has been quit when the job is terminal.
C31_OneLiveHandlePerCookieJob ==
  (entry = "bg" /\ cookies) =>
    /\ Cardinality((1..nHandles) \ quitSet) <= 1
    /\ (pc = "done" => (1..nHandles) \subseteq quitSet)

\* C32: whenever is_logged_in is true, self.driver is a live handle (created
\* and not quit) on which the session was established; in a job started with
\* cookies, where login() is never called, it is a handle that received the
\* cookies.
C32_LoggedInMeansLiveSessionHandle ==
  is_logged_in =>
    /\ driver # NoHandle
    /\ driver \notin quitSet
    /\ ((entry = "bg" /\ cookies) => driver \in cookieJar)

\* C37: every call of login(), from ensure_login as from the /api/login
\* endpoint, is made on a scraper whose self.driver is a browser handle
\* (not None).
C37_LoginOnlyWithHandle ==
  \A i \in DOMAIN runLog : runLog[i][1] = "login" => runLog[i][2] # NoHandle

====
